---- MODULE Spec2Model ----
(***************************************************************************)
(* IDENTIA: the procedure workflow (orchestration/workflow.py), its three  *)
(* agents (orchestration/agents.py), the HTTP handlers that drive them     *)
(* (main.py) and the PII anonymizer (security/anonymizer.py).              *)
(*                                                                         *)
(* Python values that may sit in a dict are modelled as tagged records     *)
(* (Num, Bool, Str, Dict, NoneV); Python strings that the program only     *)
(* concatenates are TLA+ strings; strings that the program indexes (the    *)
(* anonymizer's text) are sequences of one-character strings.  Scores and  *)
(* confidences are in hundredths (0.85 is 85).  An Optional[str] is <<>>   *)
(* for None and <<s>> for the string s.  Message texts are the program's    *)
(* without their emoji, a bullet being '-'.                                *)
(***************************************************************************)
EXTENDS Integers, Sequences, FiniteSets, TLC

VARIABLES
    state,      \* the ProcedureState the caller holds (workflow.py:37-73)
    pc,         \* "idle", or "run" while ProcedureWorkflow.run is in its loop
    call,       \* the last call made on the workflow and how it ended
    result,     \* the AgentResult the last handler invocation got, if any
    typeEdited, \* whether the caller has replaced procedure_type (history)
    citizen_text,   \* CitizenMessage.text of the request process_message handles
    salt,       \* PIIAnonymizer.salt of the global anonymizer (main.py:180)
    anonymization,  \* the AnonymizationResult of the last anonymize call
    safe_text,  \* the text process_message handed to _detect_intent
    restored,   \* the text the last deanonymize call returned
    candidates, \* the list of detections handed to _remove_overlaps
    resolved,   \* what _remove_overlaps returned for it, once it has
    tramites_db,    \* _tramites_db of tracking_service.py: PIN -> trámite
    tracking_call,  \* the last call on the tracking service and its return
    legal_state,    \* the state dict handed to LegalAgent.process
    legal_result,   \* what LegalAgent.process gave back for it, once it has
    gestor_state,   \* the state dict handed to GestorAgent.process
    gestor_result,  \* what GestorAgent.process gave back for it, once it has
    procedures,     \* procedures of main.py: procedure_id -> ProcedureState
    tasks,          \* the step requests the server has been sent
    running         \* the request whose handler holds the event loop

wfvars == <<state, pc, call, result, typeEdited>>
anvars == <<citizen_text, salt, anonymization, safe_text, restored>>
ovvars == <<candidates, resolved>>
trvars == <<tramites_db, tracking_call>>
lgvars == <<legal_state, legal_result>>
gsvars == <<gestor_state, gestor_result>>
svvars == <<procedures, tasks, running>>
\* the variables of the other components, which the workflow and the
\* message handler leave alone
extvars == <<ovvars, trvars, lgvars, gsvars, svvars>>
vars == <<wfvars, anvars, extvars>>

-----------------------------------------------------------------------------
(* Python values *)

NoneV == [py |-> "None"]
Num(n) == [py |-> "num", n |-> n]
Bool(b) == [py |-> "bool", b |-> b]
Str(s) == [py |-> "str", s |-> s]
Dict(d) == [py |-> "dict", d |-> d]

EmptyDict == [k \in {} |-> NoneV]

\* dict.get(k, default)
Get(d, k, default) == IF k \in DOMAIN d THEN d[k] ELSE default

\* dict.update(e)
Update(d, e) ==
    [k \in (DOMAIN d) \cup (DOMAIN e) |-> IF k \in DOMAIN e THEN e[k] ELSE d[k]]

\* bool(v)
Truthy(v) ==
    CASE v.py = "None" -> FALSE
      [] v.py = "num"  -> v.n # 0
      [] v.py = "bool" -> v.b
      [] v.py = "str"  -> v.s # ""
      [] v.py = "dict" -> DOMAIN v.d # {}

\* type(v).__name__
PyTypeName(v) ==
    CASE v.py = "None" -> "NoneType"
      [] v.py = "num"  -> "int"
      [] v.py = "bool" -> "bool"
      [] v.py = "str"  -> "str"
      [] v.py = "dict" -> "dict"

\* a value that an ordering comparison with a number accepts (bool is an int)
IsNumber(v) == v.py \in {"num", "bool"}
\* such a value as a score in hundredths, and as an integer
ScoreOf(v) == IF v.py = "num" THEN v.n ELSE IF v.b THEN 100 ELSE 0
IntOf(v) == IF v.py = "num" THEN v.n ELSE IF v.b THEN 1 ELSE 0

\* str(e) of the AttributeError of v.get(...) on a value that is no dict
NoGetError(v) == "'" \o PyTypeName(v) \o "' object has no attribute 'get'"

\* str(e) of the TypeError of comparing v with a number
CompareError(v, op, other) ==
    "'" \o op \o "' not supported between instances of '" \o PyTypeName(v)
        \o "' and '" \o other \o "'"

\* a local name for the value of one call, computed once:
\* result = f(...); <rest>
With(value, rest(_)) == CHOOSE out \in {rest(v) : v \in {value}} : TRUE

RECURSIVE JoinStr(_, _)
\* sep.join(seq)
JoinStr(seq, sep) ==
    IF seq = <<>> THEN ""
    ELSE IF Len(seq) = 1 THEN seq[1]
    ELSE seq[1] \o sep \o JoinStr(Tail(seq), sep)

RECURSIVE Flatten(_)
\* the concatenation of a sequence of sequences
Flatten(seqs) == IF seqs = <<>> THEN <<>> ELSE Head(seqs) \o Flatten(Tail(seqs))

-----------------------------------------------------------------------------
(* agents.py: AgentResult and the three agents *)

NoResult == [status |-> "none"]

AgentResult(status, message, data, next_action, confidence) ==
    [status |-> status, message |-> message, data |-> data,
     next_action |-> next_action, confidence |-> confidence]

\* what a call gives back: an exception text, or a value
Raise(text) == [exc |-> <<text>>, val |-> NoResult]
Return(v) == [exc |-> <<>>, val |-> v]

required_documents == <<"cedula", "proof_of_address", "photo">>

FACE_THRESHOLD == 85

required_fields == <<"nombre", "cedula", "direccion", "telefono", "tipo_tramite">>

\* variant: a document counts only by its extracted data, "verified" is ignored
is_document_valid_data_only(document) ==
    Get(document.d, "data", NoneV).py # "None"

is_document_valid(document) ==
    \/ Truthy(Get(document.d, "verified", Bool(FALSE)))
    \/ Get(document.d, "data", NoneV).py # "None"

\* one pass of the loop of _validate_documents for doc_type
DocumentEntry(documents, doc_type) ==
    IF doc_type \in DOMAIN documents /\ Truthy(documents[doc_type])
    THEN IF documents[doc_type].py # "dict" THEN "raise"
         ELSE IF is_document_valid(documents[doc_type]) THEN "validated"
         ELSE "invalid"
    ELSE "missing"

validate_documents(documents) ==
    LET n == Len(required_documents)
        entry == [i \in 1..n |-> DocumentEntry(documents, required_documents[i])]
        bad == {i \in 1..n : entry[i] = "raise"}
        first == CHOOSE i \in bad : \A j \in bad : i <= j
        missing == Flatten([i \in 1..n |->
            CASE entry[i] = "missing" -> <<required_documents[i]>>
              [] entry[i] = "invalid" ->
                    <<required_documents[i] \o " (documento inválido)">>
              [] OTHER -> <<>>])
        validated == Flatten([i \in 1..n |->
            IF entry[i] = "validated" THEN <<required_documents[i]>> ELSE <<>>])
    IN  IF bad # {}
        THEN Raise(NoGetError(documents[required_documents[first]]))
        ELSE Return([passed |-> missing = <<>>, validated |-> validated,
                     missing |-> missing])

\* variant: the voice match gates the check too (VOICE_THRESHOLD = 0.80)
validate_biometrics_voice_gated(biometric_data) ==
    LET face_match == Get(biometric_data, "face_match_score", Num(0))
        voice_match == Get(biometric_data, "voice_match_score", Num(0))
        liveness == Get(biometric_data, "liveness_check", Bool(FALSE))
    IN  Return([
            passed |-> /\ ScoreOf(face_match) >= FACE_THRESHOLD
                       /\ ScoreOf(voice_match) >= 80
                       /\ Truthy(liveness),
            face_match |-> face_match,
            voice_match |-> voice_match,
            liveness |-> liveness,
            missing |->
                (IF ScoreOf(face_match) < FACE_THRESHOLD
                 THEN <<"verificación facial">> ELSE <<>>)
                \o (IF ~Truthy(liveness) THEN <<"prueba de vida">> ELSE <<>>)])

validate_biometrics(biometric_data) ==
    LET face_match == Get(biometric_data, "face_match_score", Num(0))
        voice_match == Get(biometric_data, "voice_match_score", Num(0))
        liveness == Get(biometric_data, "liveness_check", Bool(FALSE))
    IN  IF ~IsNumber(face_match)
        THEN Raise(CompareError(face_match, ">=", "float"))
        ELSE Return([
            passed |-> ScoreOf(face_match) >= FACE_THRESHOLD /\ Truthy(liveness),
            face_match |-> face_match,
            voice_match |-> voice_match,
            liveness |-> liveness,
            missing |->
                (IF ScoreOf(face_match) < FACE_THRESHOLD
                 THEN <<"verificación facial">> ELSE <<>>)
                \o (IF ~Truthy(liveness) THEN <<"prueba de vida">> ELSE <<>>)])

validate_form(form_data) ==
    LET missing == SelectSeq(required_fields,
                             LAMBDA f : ~Truthy(Get(form_data, f, NoneV)))
    IN  Return([passed |-> missing = <<>>, missing |-> missing])

\* ValidatorAgent.process
ValidatorProcess(vstate) ==
    With(validate_documents(vstate.documents), LAMBDA dc :
    IF dc.exc # <<>> THEN dc ELSE
    With(validate_biometrics(vstate.biometric_data), LAMBDA bc :
    IF bc.exc # <<>> THEN bc ELSE
    With(validate_form(vstate.form_data), LAMBDA fc :
        LET validation_results ==
                [document_check |-> dc.val, biometric_check |-> bc.val,
                 form_check |-> fc.val]
            all_passed == dc.val.passed /\ bc.val.passed /\ fc.val.passed
            missing_items ==
                (IF dc.val.passed THEN <<>> ELSE dc.val.missing)
                \o (IF bc.val.passed THEN <<>> ELSE bc.val.missing)
                \o (IF fc.val.passed THEN <<>> ELSE fc.val.missing)
        IN  IF all_passed
            THEN Return(AgentResult("completed",
                    "Todos los documentos y datos han sido validados correctamente.",
                    validation_results, <<"legal_review">>, 95))
            ELSE Return(AgentResult("needs_info",
                    "Se requiere información adicional: "
                        \o JoinStr(missing_items, ", "),
                    validation_results, <<"request_documents">>, 80)))))

-----------------------------------------------------------------------------
(* LegalAgent *)

\* LegalAgent._load_regulations; cost in whole units of currency
regulations_db == [
    cedula_renovation |-> [
        requirements |-> <<"cedula_anterior", "foto_reciente", "comprobante_pago">>,
        eligibility |-> [age_min |-> Num(18), residency_required |-> Bool(TRUE)],
        processing_time |-> "5-10 días hábiles",
        cost |-> 500,
        legal_reference |-> "Ley 6125 de Cédula de Identidad Personal"],
    acta_nacimiento |-> [
        requirements |-> <<"cedula_solicitante", "datos_titular">>,
        eligibility |-> [relationship_required |-> Bool(TRUE)],
        processing_time |-> "3-5 días hábiles",
        cost |-> 200,
        legal_reference |-> "Ley 659 sobre Actos del Estado Civil"],
    licencia_conducir |-> [
        requirements |-> <<"cedula", "examen_medico", "curso_aprobado", "foto">>,
        eligibility |-> [age_min |-> Num(18), vision_test |-> Bool(TRUE)],
        processing_time |-> "1-3 días hábiles",
        cost |-> 1500,
        legal_reference |-> "Ley 63-17 de Movilidad y Seguridad Vial"]]

\* list(self.regulations_db.keys())
regulation_keys == <<"cedula_renovation", "acta_nacimiento", "licencia_conducir">>

\* s.replace('_', ' ').title(), for the strings the summary is built from
TitleOf(s) ==
    CASE s = "cedula_renovation" -> "Cedula Renovation"
      [] s = "acta_nacimiento" -> "Acta Nacimiento"
      [] s = "licencia_conducir" -> "Licencia Conducir"
      [] s = "cedula_anterior" -> "Cedula Anterior"
      [] s = "foto_reciente" -> "Foto Reciente"
      [] s = "comprobante_pago" -> "Comprobante Pago"
      [] s = "cedula_solicitante" -> "Cedula Solicitante"
      [] s = "datos_titular" -> "Datos Titular"
      [] s = "cedula" -> "Cedula"
      [] s = "examen_medico" -> "Examen Medico"
      [] s = "curso_aprobado" -> "Curso Aprobado"
      [] s = "foto" -> "Foto"

\* f"{cost:,.2f}" of a whole amount below a million
FormatCost(n) ==
    IF n < 1000 THEN ToString(n) \o ".00"
    ELSE ToString(n \div 1000) \o ","
         \o (IF n % 1000 < 10 THEN "00" ELSE IF n % 1000 < 100 THEN "0" ELSE "")
         \o ToString(n % 1000) \o ".00"

\* variant: only the residency rule is evaluated
check_eligibility_no_age(citizen_data, eligibility_rules) ==
    LET issues ==
            IF /\ Truthy(Get(eligibility_rules, "residency_required", NoneV))
               /\ ~Truthy(Get(citizen_data, "is_resident", Bool(FALSE)))
            THEN <<"Se requiere residencia en el país">>
            ELSE <<>>
    IN  Return([eligible |-> issues = <<>>, issues |-> issues])

\* LegalAgent._check_eligibility
check_eligibility(citizen_data, eligibility_rules) ==
    LET citizen_age == Get(citizen_data, "age", Num(0))
        checksAge == "age_min" \in DOMAIN eligibility_rules
        ageIssue ==
            IF checksAge /\ IsNumber(citizen_age)
                 /\ IntOf(citizen_age) < IntOf(eligibility_rules["age_min"])
            THEN <<"Edad mínima requerida: "
                    \o ToString(IntOf(eligibility_rules["age_min"])) \o " años">>
            ELSE <<>>
        residencyIssue ==
            IF /\ Truthy(Get(eligibility_rules, "residency_required", NoneV))
               /\ ~Truthy(Get(citizen_data, "is_resident", Bool(FALSE)))
            THEN <<"Se requiere residencia en el país">>
            ELSE <<>>
        issues == ageIssue \o residencyIssue
    IN  IF checksAge /\ ~IsNumber(citizen_age)
        THEN Raise(CompareError(citizen_age, "<", "int"))
        ELSE Return([eligible |-> issues = <<>>, issues |-> issues])

generate_legal_summary(procedure_type, regulations, eligibility) ==
    "**Resumen de su trámite: " \o TitleOf(procedure_type) \o "**\n\n"
    \o "**Documentos necesarios:**\n"
    \o JoinStr([i \in 1..Len(regulations.requirements) |->
                    "   - " \o TitleOf(regulations.requirements[i])], "\n")
    \o "\n\n**Tiempo de procesamiento:** " \o regulations.processing_time
    \o "\n\n**Costo:** RD$" \o FormatCost(regulations.cost)
    \o "\n\n**Base legal:** " \o regulations.legal_reference

\* LegalAgent.process
LegalProcess(lstate) ==
    LET procedure_type == lstate.procedure_type
        citizen_data == lstate.citizen_data
        documents == lstate.documents
    IN  IF procedure_type \notin DOMAIN regulations_db
        THEN Return(AgentResult("failed",
                "No se encontró información legal para el trámite: "
                    \o procedure_type,
                [available_procedures |-> regulation_keys], <<>>, 100))
        ELSE
        LET regulations == regulations_db[procedure_type]
        IN  With(check_eligibility(citizen_data, regulations.eligibility),
                 LAMBDA er :
            IF er.exc # <<>> THEN er
            ELSE
            LET eligibility_result == er.val
                missing_docs == SelectSeq(regulations.requirements,
                                          LAMBDA doc : doc \notin DOMAIN documents)
                summary == generate_legal_summary(procedure_type, regulations,
                                                  eligibility_result)
                issues ==
                    (IF ~eligibility_result.eligible
                     THEN eligibility_result.issues ELSE <<>>)
                    \o (IF missing_docs # <<>>
                        THEN <<"Documentos faltantes: "
                                \o JoinStr(missing_docs, ", ")>>
                        ELSE <<>>)
            IN  IF eligibility_result.eligible /\ missing_docs = <<>>
                THEN Return(AgentResult("completed",
                        "Análisis legal completado. El ciudadano cumple con todos los requisitos.",
                        [eligibility |-> eligibility_result,
                         regulations |-> regulations,
                         summary |-> summary],
                        <<"schedule_appointment">>, 92))
                ELSE Return(AgentResult("needs_info",
                        "Se identificaron los siguientes requisitos pendientes: "
                            \o JoinStr(issues, "; "),
                        [eligibility |-> eligibility_result,
                         missing_documents |-> missing_docs,
                         summary |-> summary],
                        <<"request_info">>, 85)))

-----------------------------------------------------------------------------
(* GestorAgent *)

\* GestorAgent._load_offices
available_offices == <<
    [id |-> "jce_sd",
     name |-> "Junta Central Electoral - Santo Domingo",
     services |-> <<"cedula_renovation", "acta_nacimiento">>,
     available_slots |-> <<"09:00", "10:00", "11:00", "14:00", "15:00">>],
    [id |-> "dgii_sd",
     name |-> "DGII - Santo Domingo",
     services |-> <<"rnc", "declaracion_impuestos">>,
     available_slots |-> <<"08:00", "09:00", "10:00", "11:00">>],
    [id |-> "intrant_sd",
     name |-> "INTRANT - Santo Domingo",
     services |-> <<"licencia_conducir", "marbete">>,
     available_slots |-> <<"08:00", "09:00", "10:00", "14:00", "15:00", "16:00">>] >>

Range(seq) == {seq[i] : i \in DOMAIN seq}

\* GestorAgent._get_all_services: the services of all offices, as a set
get_all_services == UNION {Range(available_offices[i].services) :
                            i \in DOMAIN available_offices}

\* hash(procedure_type) % 10000: Python seeds str hashes per process; the
\* model takes one seed, under which the hash is a function of the length
hash_mod(procedure_type) == (Len(procedure_type) * 7919 + 13) % 10000

\* f"{n:04d}"
Format04d(n) ==
    (IF n < 10 THEN "000" ELSE IF n < 100 THEN "00" ELSE IF n < 1000 THEN "0" ELSE "")
    \o ToString(n)

get_appointment_instructions(appointment) ==
    "**Detalles de su cita:**\n\n**Oficina:** " \o appointment.office
    \o "\n**Fecha:** " \o appointment.date
    \o "\n**Hora:** " \o appointment.time
    \o "\n**Código de confirmación:** " \o appointment.confirmation_code
    \o "\n\n**Recuerde traer:**\n   - Cédula de identidad original\n"
    \o "   - Documentos mencionados en los requisitos\n   - Este código de confirmación"
    \o "\n\n**Importante:** Llegue 15 minutos antes de su cita."

\* variant: the preferred time is taken as given, in the office's slots or
\* not
schedule_appointment_time_as_given(procedure_type, preferences) ==
    LET suitable_offices == SelectSeq(available_offices,
            LAMBDA office : procedure_type \in Range(office.services))
    IN  IF suitable_offices = <<>>
        THEN Return(AgentResult("failed",
                "No se encontró oficina disponible para el trámite: "
                    \o procedure_type,
                [available_procedures |-> get_all_services], <<>>, 100))
        ELSE IF preferences.py # "dict" THEN Raise(NoGetError(preferences))
        ELSE
        LET selected_office == suitable_offices[1]
            preferred_time == Get(preferences.d, "preferred_time",
                                  Str(selected_office.available_slots[1]))
            appointment == [
                office |-> selected_office.name,
                office_id |-> selected_office.id,
                date |-> "próximo día hábil disponible",
                time |-> IF preferred_time.py = "str"
                         THEN preferred_time.s
                         ELSE selected_office.available_slots[1],
                procedure |-> procedure_type,
                confirmation_code |->
                    "IDENTIA-" \o Format04d(hash_mod(procedure_type))]
        IN  Return(AgentResult("completed",
                "Cita programada exitosamente en " \o selected_office.name,
                [appointment |-> appointment,
                 instructions |-> get_appointment_instructions(appointment)],
                <<"confirm_appointment">>, 95))

\* GestorAgent._schedule_appointment; preferences is any Python value
schedule_appointment(procedure_type, preferences) ==
    LET suitable_offices == SelectSeq(available_offices,
            LAMBDA office : procedure_type \in Range(office.services))
    IN  IF suitable_offices = <<>>
        THEN Return(AgentResult("failed",
                "No se encontró oficina disponible para el trámite: "
                    \o procedure_type,
                [available_procedures |-> get_all_services], <<>>, 100))
        ELSE IF preferences.py # "dict" THEN Raise(NoGetError(preferences))
        ELSE
        LET selected_office == suitable_offices[1]
            preferred_time == Get(preferences.d, "preferred_time",
                                  Str(selected_office.available_slots[1]))
            appointment == [
                office |-> selected_office.name,
                office_id |-> selected_office.id,
                date |-> "próximo día hábil disponible",
                time |-> IF /\ preferred_time.py = "str"
                            /\ preferred_time.s \in Range(selected_office.available_slots)
                         THEN preferred_time.s
                         ELSE selected_office.available_slots[1],
                procedure |-> procedure_type,
                confirmation_code |->
                    "IDENTIA-" \o Format04d(hash_mod(procedure_type))]
        IN  Return(AgentResult("completed",
                "Cita programada exitosamente en " \o selected_office.name,
                [appointment |-> appointment,
                 instructions |-> get_appointment_instructions(appointment)],
                <<"confirm_appointment">>, 95))

\* GestorAgent.process for the action the workflow passes
GestorProcess(gstate) ==
    IF gstate.action = "schedule"
    THEN schedule_appointment(gstate.procedure_type, gstate.preferences)
    ELSE Return(AgentResult("failed", "Acción no reconocida: " \o gstate.action,
                            EmptyDict, <<>>, 100))

-----------------------------------------------------------------------------
(* workflow.py: WorkflowStep, ProcedureState and ProcedureWorkflow *)

START == "start"
BIOMETRIC_VALIDATION == "biometric_validation"
DOCUMENT_ANALYSIS == "document_analysis"
LEGAL_REVIEW == "legal_review"
SCHEDULING == "scheduling"
COMPLETE == "complete"
ERROR == "error"

WorkflowStep == {START, BIOMETRIC_VALIDATION, DOCUMENT_ANALYSIS, LEGAL_REVIEW,
                 SCHEDULING, COMPLETE, ERROR}

\* str(step) of a member of the enum
StepName(step) ==
    CASE step = START -> "WorkflowStep.START"
      [] step = BIOMETRIC_VALIDATION -> "WorkflowStep.BIOMETRIC_VALIDATION"
      [] step = DOCUMENT_ANALYSIS -> "WorkflowStep.DOCUMENT_ANALYSIS"
      [] step = LEGAL_REVIEW -> "WorkflowStep.LEGAL_REVIEW"
      [] step = SCHEDULING -> "WorkflowStep.SCHEDULING"
      [] step = COMPLETE -> "WorkflowStep.COMPLETE"
      [] step = ERROR -> "WorkflowStep.ERROR"

\* ProcedureState(...) with the fields a caller passes and the defaults
ProcedureState(procedure_type, citizen_data, documents, biometric_data) ==
    [procedure_type |-> procedure_type,
     current_step |-> START,
     step_history |-> <<>>,
     citizen_data |-> citizen_data,
     documents |-> documents,
     biometric_data |-> biometric_data,
     validation_result |-> EmptyDict,
     legal_result |-> EmptyDict,
     appointment |-> EmptyDict,
     error |-> <<>>,
     messages |-> <<>>]

\* what a handler gives back: the state as it left it, the AgentResult it
\* got from its agent (NoResult if it called none), and the exception text
\* if it raised
Handled(s, r) == [exc |-> <<>>, state |-> s, result |-> r]
Raised(exc, s) == [exc |-> exc, state |-> s, result |-> NoResult]

Say(s, message) == [s EXCEPT !.messages = Append(@, message)]

WelcomeMessage == "¡Bienvenido a IDENTIA! \n¿En qué trámite puedo ayudarle hoy?"
CapturePrompt ==
    "Por favor, mire a la cámara para verificar su identidad.\nEsto solo tomará unos segundos."
UploadPrompt ==
    "Ahora necesito que tome una foto de su cédula.\nColóquela dentro del marco en la pantalla."
ApologyMessage ==
    "Lo sentimos, ocurrió un error procesando su solicitud. Por favor intente nuevamente."

\* procedure_type.replace('_', ' ') of the types of the model
SpacedOf(s) ==
    CASE s = "cedula_renovation" -> "cedula renovation"
      [] s = "acta_nacimiento" -> "acta nacimiento"
      [] s = "licencia_conducir" -> "licencia conducir"
      [] OTHER -> s

\* variant: the start handler hands over to the wrong stage
handle_start_skips(s) ==
    IF s.procedure_type = ""
    THEN Handled(Say(s, WelcomeMessage), NoResult)
    ELSE Handled([Say(s, "Perfecto, vamos a iniciar su trámite.")
                     EXCEPT !.current_step = DOCUMENT_ANALYSIS], NoResult)

handle_start(s) ==
    IF s.procedure_type = ""
    THEN Handled(Say(s, WelcomeMessage), NoResult)
    ELSE Handled(
            [Say(s, "Perfecto, vamos a iniciar su trámite de "
                        \o SpacedOf(s.procedure_type)
                        \o ".\nPrimero necesito verificar su identidad.")
                EXCEPT !.current_step = BIOMETRIC_VALIDATION],
            NoResult)

\* variant: the biometric handler prompts for a capture and advances anyway
handle_biometric_advances(s) ==
    Handled([Say(s, CapturePrompt) EXCEPT !.current_step = DOCUMENT_ANALYSIS],
            NoResult)

handle_biometric(s) ==
    IF DOMAIN s.biometric_data = {}
    THEN Handled(Say(s, CapturePrompt), NoResult)
    ELSE
    With(ValidatorProcess([documents |-> s.documents,
                           biometric_data |-> s.biometric_data,
                           form_data |-> s.citizen_data]), LAMBDA r :
    LET s1 == [s EXCEPT !.validation_result = r.val.data]
    IN  IF r.exc # <<>> THEN Raised(r.exc, s)
        ELSE IF r.val.status = "completed"
        THEN Handled(
                [Say(s1, "¡Identidad verificada correctamente!\nAhora revisaremos sus documentos.")
                    EXCEPT !.current_step = DOCUMENT_ANALYSIS], r.val)
        ELSE IF r.val.status = "needs_info"
        THEN Handled(Say(s1, r.val.message \o "\nPor favor, intente nuevamente."),
                     r.val)
        ELSE Handled([s1 EXCEPT !.error = <<r.val.message>>,
                                !.current_step = ERROR], r.val))

handle_documents(s) ==
    IF DOMAIN s.documents = {}
    THEN Handled(Say(s, UploadPrompt), NoResult)
    ELSE
    With(ValidatorProcess([documents |-> s.documents,
                           biometric_data |-> s.biometric_data,
                           form_data |-> s.citizen_data]), LAMBDA r :
        IF r.exc # <<>> THEN Raised(r.exc, s)
        ELSE IF r.val.status = "completed"
        THEN Handled(
                [Say(s, "Documentos verificados correctamente.\nRevisando requisitos legales...")
                    EXCEPT !.current_step = LEGAL_REVIEW], r.val)
        ELSE
        LET missing == r.val.data.document_check.missing
        IN  IF missing # <<>>
            THEN Handled(Say(s, "Necesito los siguientes documentos adicionales:\n"
                    \o JoinStr([i \in 1..Len(missing) |-> "  - " \o missing[i]], "\n")),
                    r.val)
            ELSE Handled(Say(s, r.val.message), r.val))

handle_legal(s) ==
    With(LegalProcess([procedure_type |-> s.procedure_type,
                       citizen_data |-> s.citizen_data,
                       documents |-> s.documents]), LAMBDA r :
    LET s1 == [s EXCEPT !.legal_result = r.val.data]
    IN  IF r.exc # <<>> THEN Raised(r.exc, s)
        ELSE IF r.val.status = "completed"
        THEN Handled(
                [Say(s1, "Análisis legal completado.\n\n" \o r.val.data.summary
                            \o "\n\n¿Desea programar una cita?")
                    EXCEPT !.current_step = SCHEDULING], r.val)
        ELSE IF r.val.status = "needs_info"
        THEN Handled(Say(s1, r.val.message), r.val)
        ELSE Handled([s1 EXCEPT !.error = <<r.val.message>>,
                                !.current_step = ERROR], r.val))

handle_scheduling(s) ==
    With(GestorProcess([action |-> "schedule",
                        procedure_type |-> s.procedure_type,
                        preferences |-> Get(s.citizen_data, "preferences",
                                            Dict(EmptyDict))]), LAMBDA r :
        IF r.exc # <<>> THEN Raised(r.exc, s)
        ELSE IF r.val.status = "completed"
        THEN Handled(
                [Say([s EXCEPT !.appointment = r.val.data.appointment],
                     "¡Excelente! Su trámite ha sido procesado.\n\n"
                        \o r.val.data.instructions)
                    EXCEPT !.current_step = COMPLETE], r.val)
        ELSE Handled(Say(s, r.val.message), r.val))

\* self.transitions: the steps that have a handler, and the handler's effect
HandledSteps == {START, BIOMETRIC_VALIDATION, DOCUMENT_ANALYSIS, LEGAL_REVIEW,
                 SCHEDULING}

transitions(s) ==
    CASE s.current_step = START -> handle_start(s)
      [] s.current_step = BIOMETRIC_VALIDATION -> handle_biometric(s)
      [] s.current_step = DOCUMENT_ANALYSIS -> handle_documents(s)
      [] s.current_step = LEGAL_REVIEW -> handle_legal(s)
      [] s.current_step = SCHEDULING -> handle_scheduling(s)

\* variant: the missing-handler branch forgets to set error
NoHandler_no_error(s) == [s EXCEPT !.current_step = ERROR]

NoHandler(s) ==
    [s EXCEPT !.error = <<"No handler for step: " \o StepName(s.current_step)>>,
              !.current_step = ERROR]

\* ProcedureWorkflow.step: one handler invocation; an exception of the
\* handler propagates to the caller
step(s) ==
    IF s.current_step \notin HandledSteps
    THEN Handled(NoHandler(s), NoResult)
    ELSE transitions(s)

\* variant: the loop of run also ends at SCHEDULING
run_continues_to_scheduling(s) ==
    s.current_step \notin {COMPLETE, ERROR, SCHEDULING}

\* the test of the while loop of ProcedureWorkflow.run
run_continues(s) == s.current_step \notin {COMPLETE, ERROR}

\* variant: the except branch of run records the error but says nothing
run_body_no_apology(s) ==
    IF s.current_step \notin HandledSteps
    THEN Handled(NoHandler(s), NoResult)
    ELSE
    With(transitions(s), LAMBDA h :
        IF h.exc = <<>>
        THEN Handled([h.state EXCEPT !.step_history =
                                        Append(@, h.state.current_step)],
                     h.result)
        ELSE Handled([h.state EXCEPT !.error = <<h.exc[1]>>,
                                     !.current_step = ERROR],
                     h.result))

\* one pass through the body of the while loop of ProcedureWorkflow.run
run_body(s) ==
    IF s.current_step \notin HandledSteps
    THEN Handled(NoHandler(s), NoResult)
    ELSE
    With(transitions(s), LAMBDA h :
        IF h.exc = <<>>
        THEN Handled([h.state EXCEPT !.step_history =
                                        Append(@, h.state.current_step)],
                     h.result)
        ELSE Handled(Say([h.state EXCEPT !.error = <<h.exc[1]>>,
                                         !.current_step = ERROR],
                         ApologyMessage),
                     h.result))

\* ProcedureState.to_dict and ProcedureState.from_dict on the fields of the
\* model; from_dict starts from the defaults and sets every key it is given
to_dict(s) ==
    [procedure_type |-> s.procedure_type,
     current_step |-> s.current_step,
     step_history |-> s.step_history,
     citizen_data |-> s.citizen_data,
     documents |-> s.documents,
     biometric_data |-> s.biometric_data,
     validation_result |-> s.validation_result,
     legal_result |-> s.legal_result,
     appointment |-> s.appointment,
     error |-> s.error,
     messages |-> s.messages]

from_dict(data) ==
    LET default == ProcedureState("", EmptyDict, EmptyDict, EmptyDict)
    IN  [k \in DOMAIN default |-> IF k \in DOMAIN data THEN data[k] ELSE default[k]]

-----------------------------------------------------------------------------
(* the inputs of the model *)

MaxMessages == 5

\* the types a procedure is created with, and the types a caller puts in
\* place of them
ProcedureTypes == {"", "cedula_renovation", "pasaporte"}
ReloadTypes == {"pasaporte"}

GoodBiometrics == [face_match_score |-> Num(95), liveness_check |-> Bool(TRUE)]
LowBiometrics == [face_match_score |-> Num(84), liveness_check |-> Bool(TRUE)]
BiometricInputs == {EmptyDict, GoodBiometrics, LowBiometrics}

ValidDocument == Dict([verified |-> Bool(TRUE)])
OneValidDocument == [cedula |-> ValidDocument]
ValidatorDocuments ==
    [cedula |-> ValidDocument, proof_of_address |-> ValidDocument,
     photo |-> ValidDocument]
RenovationDocuments ==
    [cedula_anterior |-> ValidDocument, foto_reciente |-> ValidDocument,
     comprobante_pago |-> ValidDocument]
AllDocuments == Update(ValidatorDocuments, RenovationDocuments)
MalformedDocument == Update(AllDocuments, [photo |-> Str("photo.jpg")])
DocumentInputs == {EmptyDict, OneValidDocument, AllDocuments, MalformedDocument}

FormData ==
    [nombre |-> Str("Ana Ruiz"), cedula |-> Str("00112345678"),
     direccion |-> Str("Calle 1"), telefono |-> Str("8095551234"),
     tipo_tramite |-> Str("cedula_renovation")]
AdultCitizen == Update(FormData, [age |-> Num(30), is_resident |-> Bool(TRUE)])
MinorCitizen == Update(FormData, [age |-> Num(16), is_resident |-> Bool(TRUE)])
BadPreferences == Update(AdultCitizen, [preferences |-> Str("10:00")])
CitizenInputs == {EmptyDict, AdultCitizen, MinorCitizen, BadPreferences}

\* the bodies of step requests: nothing, or new data for one field
StepData ==
    {EmptyDict, [biometric_data |-> GoodBiometrics], [documents |-> AllDocuments]}

-----------------------------------------------------------------------------
(* the caller: main.py start_procedure and step_procedure, and a caller of  *)
(* the workflow as a library                                               *)

\* step_procedure, main.py:353-360: the request's data into the state
ApplyData(s, data) ==
    [s EXCEPT
        !.biometric_data =
            IF "biometric_data" \in DOMAIN data THEN data["biometric_data"] ELSE @,
        !.documents =
            IF "documents" \in DOMAIN data THEN Update(@, data["documents"]) ELSE @,
        !.citizen_data =
            IF "citizen_data" \in DOMAIN data THEN Update(@, data["citizen_data"]) ELSE @]

\* no message has been handled
NoAnonymization == [anonymized_text |-> <<>>, detected_entities |-> <<>>,
                    mapping |-> <<>>, reverse_mapping |-> <<>>]

AnonymizerIdle ==
    /\ citizen_text = <<>>
    /\ salt = 0
    /\ anonymization = NoAnonymization
    /\ safe_text = <<>>
    /\ restored = <<>>

\* no procedure has been started
WorkflowIdle ==
    /\ state = ProcedureState("", EmptyDict, EmptyDict, EmptyDict)
    /\ pc = "idle"
    /\ call = [op |-> "none", status |-> "none"]
    /\ result = NoResult
    /\ typeEdited = FALSE

\* no list has been handed to _remove_overlaps
NotResolved == <<>>
OverlapIdle ==
    /\ candidates = <<>>
    /\ resolved = NotResolved

\* the registry is empty and the tracking service has not been called
NoTrackingCall == [op |-> "none"]
TrackingIdle ==
    /\ tramites_db = <<>>
    /\ tracking_call = NoTrackingCall

\* LegalAgent.process has not been called
NoLegalCall == [exc |-> <<>>, val |-> [status |-> "none"]]
LegalIdle ==
    /\ legal_state = [procedure_type |-> "", citizen_data |-> <<>>,
                       documents |-> <<>>]
    /\ legal_result = NoLegalCall

\* GestorAgent.process has not been called
NoGestorCall == [exc |-> <<>>, val |-> [status |-> "none"]]
GestorIdle ==
    /\ gestor_state = [action |-> "", procedure_type |-> "",
                        preferences |-> NoneV]
    /\ gestor_result = NoGestorCall

\* the server holds no procedure and has been sent no request
NoTask == 0
ServerIdle ==
    /\ procedures = <<>>
    /\ tasks = <<>>
    /\ running = NoTask

\* the other components have not been called
ExtIdle ==
    /\ OverlapIdle
    /\ TrackingIdle
    /\ LegalIdle
    /\ GestorIdle
    /\ ServerIdle

Init ==
    /\ AnonymizerIdle
    /\ ExtIdle
    /\ \E t \in ProcedureTypes, c \in CitizenInputs, d \in DocumentInputs,
          b \in BiometricInputs :
            state = ProcedureState(t, c, d, b)
    /\ pc = "idle"
    /\ call = [op |-> "none", status |-> "none"]
    /\ result = NoResult
    /\ typeEdited = FALSE

\* step_procedure: the data of the request, then one workflow.step
StepProcedure(data) ==
    /\ pc = "idle"
    /\ \E h \in {step(ApplyData(state, data))} :
           /\ Len(h.state.messages) <= MaxMessages
           /\ state' = h.state
           /\ result' = h.result
           /\ call' = [op |-> "step",
                       status |-> IF h.exc = <<>> THEN "returned" ELSE "raised"]
    /\ UNCHANGED <<pc, typeEdited, anvars, extvars>>

\* a call of ProcedureWorkflow.run enters the loop
RunStart ==
    /\ pc = "idle"
    /\ pc' = "run"
    /\ call' = [op |-> "run", status |-> "active"]
    /\ result' = NoResult
    /\ UNCHANGED <<state, typeEdited, anvars, extvars>>

\* one pass through the loop of run
RunIter ==
    /\ pc = "run"
    /\ run_continues(state)
    /\ \E h \in {run_body(state)} :
           /\ Len(h.state.messages) <= MaxMessages
           /\ state' = h.state
           /\ result' = h.result
    /\ UNCHANGED <<pc, call, typeEdited, anvars, extvars>>

\* the loop of run ends and run returns the state
RunReturn ==
    /\ pc = "run"
    /\ ~run_continues(state)
    /\ pc' = "idle"
    /\ call' = [op |-> "run", status |-> "returned"]
    /\ UNCHANGED <<state, result, typeEdited, anvars, extvars>>

\* the caller stores the state with to_dict and restores it with from_dict,
\* with another procedure_type
Reload(t) ==
    /\ pc = "idle"
    /\ t # state.procedure_type
    /\ state' = from_dict([to_dict(state) EXCEPT !.procedure_type = t])
    /\ typeEdited' = TRUE
    /\ UNCHANGED <<pc, call, result, anvars, extvars>>

Next ==
    \/ \E data \in StepData : StepProcedure(data)
    \/ RunStart
    \/ RunIter
    \/ RunReturn
    \/ \E t \in ReloadTypes : Reload(t)

Spec == Init /\ [][Next]_vars

\* a run of the workflow alone: run is called on a state and nothing else
\* touches it; the loop of run has no point at which it waits, so it goes on
RunNext ==
    \/ RunStart
    \/ RunIter
    \/ RunReturn

RunSpec ==
    /\ Init
    /\ [][RunNext]_vars
    /\ WF_vars(RunIter)
    /\ WF_vars(RunReturn)

-----------------------------------------------------------------------------
(* properties of the workflow *)

Terminal(s) == s.current_step \in {COMPLETE, ERROR}

\* the stage that follows a stage in the order of the workflow
Successor(stage) ==
    CASE stage = START -> BIOMETRIC_VALIDATION
      [] stage = BIOMETRIC_VALIDATION -> DOCUMENT_ANALYSIS
      [] stage = DOCUMENT_ANALYSIS -> LEGAL_REVIEW
      [] stage = LEGAL_REVIEW -> SCHEDULING
      [] stage = SCHEDULING -> COMPLETE
      [] OTHER -> stage

\* a call of step with the request's data, or a move of run
WorkflowCall(data) ==
    \/ StepProcedure(data)
    \/ data = EmptyDict /\ (RunStart \/ RunIter \/ RunReturn)

\* C1: once current_step is COMPLETE or ERROR, no call of step or run changes
\* current_step, error or any other field of the state (the state after the
\* call is the state the call was given).
C1_TerminalStateIsFinal ==
    [][\A data \in StepData :
          (Terminal(state) /\ WorkflowCall(data))
              => state' = ApplyData(state, data)]_vars

\* the form of the validator is complete
FormComplete(citizen_data) ==
    \A i \in DOMAIN required_fields :
        Truthy(Get(citizen_data, required_fields[i], NoneV))

\* the documents hold exactly one document, and it is a verified one
OneDocumentValid(documents) ==
    /\ Cardinality(DOMAIN documents) = 1
    /\ \A k \in DOMAIN documents : documents[k] = ValidDocument

\* run has returned from COMPLETE with an appointment
CompletedWithAppointment ==
    /\ pc = "idle"
    /\ call = [op |-> "run", status |-> "returned"]
    /\ state.current_step = COMPLETE
    /\ DOMAIN state.appointment # {}

RenovationReady(s) ==
    /\ s.procedure_type = "cedula_renovation"
    /\ s.biometric_data = GoodBiometrics
    /\ \A i \in DOMAIN required_documents :
          /\ required_documents[i] \in DOMAIN s.documents
          /\ s.documents[required_documents[i]] = ValidDocument
    /\ \A i \in DOMAIN regulations_db["cedula_renovation"].requirements :
          regulations_db["cedula_renovation"].requirements[i] \in DOMAIN s.documents
    /\ FormComplete(s.citizen_data)
    /\ Get(s.citizen_data, "age", Num(0)) = Num(30)
    /\ Get(s.citizen_data, "is_resident", Bool(FALSE)) = Bool(TRUE)
    /\ Get(s.citizen_data, "preferences", Dict(EmptyDict)).py = "dict"

Stalls(s) ==
    /\ run_continues(s)
    /\ \E h \in {run_body(s)} : h.state.current_step = s.current_step

\* C3: run returns only when current_step is COMPLETE or ERROR; and while
\* the handler of the current step stalls, run does not return: its next
\* move is that same handler again, which stalls again.
C3_RunReturnsOnlyAtTerminal ==
    /\ []((call = [op |-> "run", status |-> "returned"]) => Terminal(state))
    /\ [][(pc = "run" /\ Stalls(state))
            => /\ pc' = "run"
               /\ state'.current_step = state.current_step
               /\ state'.step_history =
                    Append(state.step_history, state.current_step)
               /\ Stalls(state')]_vars

C3_Witness ==
    /\ pc = "run"
    /\ Stalls(state)
    /\ Len(state.step_history) >= 3
    /\ state.step_history[Len(state.step_history)] = state.current_step
    /\ state.step_history[Len(state.step_history) - 1] = state.current_step

\* C4: on a state in BIOMETRIC_VALIDATION with no biometric data, one step
\* call leaves current_step in BIOMETRIC_VALIDATION and appends the capture
\* prompt; the validator is not invoked and validation_result is unchanged.
C4_NoBiometricsStalls ==
    [][\A data \in StepData :
          (/\ state.current_step = BIOMETRIC_VALIDATION
           /\ DOMAIN ApplyData(state, data).biometric_data = {}
           /\ StepProcedure(data))
              => /\ state'.current_step = BIOMETRIC_VALIDATION
                 /\ state'.messages = Append(state.messages, CapturePrompt)
                 /\ call' = [op |-> "step", status |-> "returned"]
                 /\ result' = NoResult
                 /\ state'.validation_result = state.validation_result]_vars

C4_Witness ==
    /\ call = [op |-> "step", status |-> "returned"]
    /\ state.current_step = BIOMETRIC_VALIDATION
    /\ DOMAIN state.biometric_data = {}
    /\ state.messages # <<>>
    /\ state.messages[Len(state.messages)] = CapturePrompt
    /\ DOMAIN state.validation_result = {}

C6_ErrorIffErrorStep ==
    (state.error # <<>>) <=> (state.current_step = ERROR)

C6_Witness ==
    /\ state.current_step = ERROR
    /\ state.error = <<"No se encontró información legal para el trámite: pasaporte">>
    /\ typeEdited = FALSE

\* C7 as stated: whenever the agent a handler invoked returns FAILED, the
\* handler moves the state to ERROR and stores the agent's message in error.
C7_FailedAgentMovesToError ==
    [][\A data \in StepData :
          ((StepProcedure(data) \/ RunIter) /\ result'.status = "failed")
              => /\ state'.current_step = ERROR
                 /\ state'.error = <<result'.message>>]_vars

\* C8: when a handler raises while run executes it, run stores the text of
\* the exception in error, sets current_step to ERROR, appends exactly one
\* apology message and goes on to return; nothing is raised to the caller.
C8_RunCatchesHandlerException ==
    [][(pc = "run" /\ run_continues(state))
          => \E h \in {step(state)} :
                h.exc # <<>>
                    => /\ state'.error = h.exc
                       /\ state'.current_step = ERROR
                       /\ state'.messages = Append(state.messages, ApologyMessage)
                       /\ [state' EXCEPT !.error = state.error,
                                         !.current_step = state.current_step,
                                         !.messages = state.messages] = state
                       /\ call' = [op |-> "run", status |-> "active"]
                       /\ pc' = "run" /\ ~run_continues(state')]_vars

C8_Witness ==
    /\ call = [op |-> "run", status |-> "returned"]
    /\ state.current_step = ERROR
    /\ state.error = <<"'str' object has no attribute 'get'">>
    /\ state.messages # <<>>
    /\ state.messages[Len(state.messages)] = ApologyMessage

-----------------------------------------------------------------------------
(* security/anonymizer.py: PIIAnonymizer                                   *)
(* A text is a sequence of characters; positions count from 0, as in       *)
(* Python. Character classes hold the characters the texts of the model    *)
(* are written with.                                                       *)

Digit == {"0", "1", "2", "3", "4", "5", "6", "7", "8", "9"}
Lowers == <<"a", "b", "c", "d", "e", "f", "g", "h", "i", "j", "k", "l", "m",
            "n", "o", "p", "q", "r", "s", "t", "u", "v", "w", "x", "y", "z">>
Uppers == <<"A", "B", "C", "D", "E", "F", "G", "H", "I", "J", "K", "L", "M",
            "N", "O", "P", "Q", "R", "S", "T", "U", "V", "W", "X", "Y", "Z">>
Accented == {"á", "é", "í", "ó", "ú", "ñ"}
Letter == Range(Lowers) \cup Range(Uppers)
\* \w, \s
WordChar == Letter \cup Accented \cup Digit \cup {"_"}
Whitespace == {" "}

\* str.lower() of one character
ToLower(c) ==
    IF c \in Range(Uppers)
    THEN Lowers[CHOOSE i \in DOMAIN Uppers : Uppers[i] = c]
    ELSE c

\* text.lower()
lower(text) == [i \in DOMAIN text |-> ToLower(text[i])]

\* text[a:b]
Slice(text, a, b) == SubSeq(text, a + 1, b)

\* sub in text
Contains(text, sub) ==
    \E p \in 0..(Len(text) - Len(sub)) : Slice(text, p, p + Len(sub)) = sub

\* text.find(sub)
find(text, sub) ==
    LET hits == {p \in 0..(Len(text) - Len(sub)) : Slice(text, p, p + Len(sub)) = sub}
    IN  IF hits = {} THEN -1 ELSE CHOOSE p \in hits : \A q \in hits : p <= q

RECURSIVE replace(_, _, _)
\* text.replace(old, new), old not empty
replace(text, old, new) ==
    With(find(text, old), LAMBDA p :
        IF p = -1 THEN text
        ELSE Slice(text, 0, p) \o new
             \o replace(Slice(text, p + Len(old), Len(text)), old, new))

\* how many characters from pos on are in cls, up to hi
RunLength(text, pos, cls, hi) ==
    LET most == IF hi = -1 \/ hi > Len(text) - pos THEN Len(text) - pos ELSE hi
        runs == {n \in 0..most : \A i \in 1..n : text[pos + i] \in cls}
    IN  CHOOSE n \in runs : \A m \in runs : m <= n

RECURSIVE split(_)
\* text.split(): the maximal runs of characters that are not whitespace
split(text) ==
    LET starts == {a \in 0..(Len(text) - 1) : text[a + 1] \notin Whitespace}
    IN  IF starts = {} THEN <<>>
        ELSE LET a == CHOOSE a \in starts : \A a2 \in starts : a <= a2
                 n == RunLength(text, a, Range(text) \ Whitespace, -1)
             IN  <<Slice(text, a, a + n)>> \o split(Slice(text, a + n, Len(text)))

\* the items of a regular expression: \b, or a character class repeated
\* between lo and hi times (hi = -1: no upper limit), greedy
WordBoundary == [b |-> TRUE]
Rep(cls, lo, hi) == [b |-> FALSE, cls |-> cls, lo |-> lo, hi |-> hi]

Separator == {"-", "."} \cup Whitespace

\* PIIAnonymizer.PATTERNS, in the order of the dict
PATTERNS == <<
    [pii_type |-> "cedula", items |->
        <<WordBoundary, Rep(Digit, 3, 3), Rep({"-"}, 0, 1), Rep(Digit, 7, 7),
          Rep({"-"}, 0, 1), Rep(Digit, 1, 1), WordBoundary>>],
    [pii_type |-> "cedula", items |->
        <<WordBoundary, Rep(Digit, 1, 2), Rep({"."}, 1, 1), Rep(Digit, 3, 3),
          Rep({"."}, 1, 1), Rep(Digit, 3, 3), WordBoundary>>],
    [pii_type |-> "cedula", items |->
        <<WordBoundary, Rep(Digit, 8, 11), WordBoundary>>],
    [pii_type |-> "email", items |->
        <<WordBoundary,
          Rep(Letter \cup Digit \cup {".", "_", "%", "+", "-"}, 1, -1),
          Rep({"@"}, 1, 1),
          Rep(Letter \cup Digit \cup {".", "-"}, 1, -1),
          Rep({"."}, 1, 1),
          Rep(Letter \cup {"|"}, 2, -1), WordBoundary>>],
    [pii_type |-> "phone", items |->
        <<WordBoundary, Rep({"+"}, 0, 1), Rep({"1"}, 0, 1), Rep(Separator, 0, 1),
          Rep({"("}, 0, 1), Rep(Digit, 3, 3), Rep({")"}, 0, 1),
          Rep(Separator, 0, 1), Rep(Digit, 3, 3), Rep(Separator, 0, 1),
          Rep(Digit, 4, 4), WordBoundary>>],
    [pii_type |-> "phone", items |->
        <<WordBoundary, Rep(Digit, 3, 3), Rep(Separator, 0, 1), Rep(Digit, 3, 3),
          Rep(Separator, 0, 1), Rep(Digit, 4, 4), WordBoundary>>],
    [pii_type |-> "phone", items |->
        <<WordBoundary, Rep({"("}, 1, 1), Rep(Digit, 3, 3), Rep({")"}, 1, 1),
          Rep(Whitespace, 0, 1), Rep(Digit, 3, 3), Rep(Separator, 0, 1),
          Rep(Digit, 4, 4), WordBoundary>>],
    [pii_type |-> "credit_card", items |->
        <<WordBoundary,
          Rep(Digit, 4, 4), Rep({"-"} \cup Whitespace, 0, 1),
          Rep(Digit, 4, 4), Rep({"-"} \cup Whitespace, 0, 1),
          Rep(Digit, 4, 4), Rep({"-"} \cup Whitespace, 0, 1),
          Rep(Digit, 4, 4), WordBoundary>>],
    [pii_type |-> "date_of_birth", items |->
        <<WordBoundary, Rep(Digit, 1, 2), Rep({"/", "-"}, 1, 1), Rep(Digit, 1, 2),
          Rep({"/", "-"}, 1, 1), Rep(Digit, 2, 4), WordBoundary>>],
    [pii_type |-> "date_of_birth", items |->
        <<WordBoundary, Rep(Digit, 4, 4), Rep({"/", "-"}, 1, 1), Rep(Digit, 1, 2),
          Rep({"/", "-"}, 1, 1), Rep(Digit, 1, 2), WordBoundary>>] >>

\* PIIAnonymizer.COMMON_NAMES
COMMON_NAMES == {
    <<"j", "u", "a", "n">>, <<"m", "a", "r", "í", "a">>,
    <<"c", "a", "r", "l", "o", "s">>, <<"a", "n", "a">>, <<"j", "o", "s", "é">>,
    <<"p", "e", "d", "r", "o">>, <<"l", "u", "i", "s">>,
    <<"c", "a", "r", "m", "e", "n">>, <<"a", "n", "t", "o", "n", "i", "o">>,
    <<"r", "o", "s", "a">>, <<"m", "i", "g", "u", "e", "l">>,
    <<"s", "o", "f", "i", "a">>, <<"d", "i", "e", "g", "o">>,
    <<"f", "e", "r", "n", "a", "n", "d", "e", "z">>,
    <<"r", "o", "d", "r", "i", "g", "u", "e", "z">>,
    <<"m", "a", "r", "t", "i", "n", "e", "z">>,
    <<"g", "a", "r", "c", "i", "a">>, <<"l", "o", "p", "e", "z">> }

\* \b at pos: exactly one of the characters before and after is a word
\* character
AtBoundary(text, pos) ==
    (pos >= 1 /\ text[pos] \in WordChar)
        # (pos < Len(text) /\ text[pos + 1] \in WordChar)

RECURSIVE MatchFrom(_, _, _, _)
RECURSIVE TryCounts(_, _, _, _, _)

\* the item k taken count times, or fewer if the rest then fails
TryCounts(items, k, text, pos, count) ==
    IF count < items[k].lo THEN -1
    ELSE With(MatchFrom(items, k + 1, text, pos + count), LAMBDA end :
            IF end # -1 THEN end
            ELSE TryCounts(items, k, text, pos, count - 1))

\* the end of the match of the items from k on at pos, -1 if there is none
MatchFrom(items, k, text, pos) ==
    IF k > Len(items) THEN pos
    ELSE IF items[k].b
    THEN IF AtBoundary(text, pos) THEN MatchFrom(items, k + 1, text, pos) ELSE -1
    ELSE TryCounts(items, k, text, pos,
                   RunLength(text, pos, items[k].cls, items[k].hi))

RECURSIVE finditer(_, _, _)
\* re.finditer(pattern, text, re.IGNORECASE): the matches from left to
\* right, each search starting where the last match ended
finditer(items, text, from) ==
    With({p \in from..Len(text) : MatchFrom(items, 1, text, p) # -1},
         LAMBDA starts :
        IF starts = {} THEN <<>>
        ELSE With(CHOOSE p \in starts : \A q \in starts : p <= q, LAMBDA start :
             With(MatchFrom(items, 1, text, start), LAMBDA end :
                <<[start |-> start, end |-> end]>>
                \o finditer(items, text, IF end > start THEN end ELSE start + 1))))

DetectedPII(pii_type, original_value, start_pos, end_pos, confidence) ==
    [pii_type |-> pii_type, original_value |-> original_value,
     start_pos |-> start_pos, end_pos |-> end_pos, confidence |-> confidence]

\* the pattern loop of detect_pii; confidence in hundredths
pattern_detections(text) ==
    Flatten([i \in DOMAIN PATTERNS |->
        With(finditer(PATTERNS[i].items, text, 0), LAMBDA matches :
            [j \in DOMAIN matches |->
                DetectedPII(PATTERNS[i].pii_type,
                            Slice(text, matches[j].start, matches[j].end),
                            matches[j].start, matches[j].end, 90)])])

\* re.sub(r'[^\w]', '', word)
clean(word) == SelectSeq(word, LAMBDA c : c \in WordChar)

\* the word loop of detect_pii
name_detections(text) ==
    With(split(lower(text)), LAMBDA words :
        Flatten([i \in DOMAIN words |->
            With(clean(words[i]), LAMBDA clean_word :
                IF clean_word \in COMMON_NAMES
                THEN With(find(lower(text), clean_word), LAMBDA pos :
                        IF pos # -1
                        THEN <<DetectedPII("name",
                                Slice(text, pos, pos + Len(clean_word)),
                                pos, pos + Len(clean_word), 70)>>
                        ELSE <<>>)
                ELSE <<>>)]))

\* the sort key (x.start_pos, -x.confidence) puts a before b
KeyBefore(a, b) ==
    \/ a.start_pos < b.start_pos
    \/ a.start_pos = b.start_pos /\ a.confidence > b.confidence

RECURSIVE InsertSorted(_, _)
\* entity put behind every member of the sorted list it is not before
InsertSorted(sorted, entity) ==
    IF sorted = <<>> THEN <<entity>>
    ELSE IF KeyBefore(entity, sorted[Len(sorted)])
    THEN Append(InsertSorted(SubSeq(sorted, 1, Len(sorted) - 1), entity),
                sorted[Len(sorted)])
    ELSE Append(sorted, entity)

RECURSIVE SortByStart(_)
\* sorted(entities, key=lambda x: (x.start_pos, -x.confidence)), stable
SortByStart(entities) ==
    IF entities = <<>> THEN <<>>
    ELSE InsertSorted(SortByStart(SubSeq(entities, 1, Len(entities) - 1)),
                      entities[Len(entities)])

RECURSIVE overlap_loop(_, _)
\* the loop of _remove_overlaps over sorted_entities[1:]
overlap_loop(kept, rest) ==
    IF rest = <<>> THEN kept
    ELSE LET entity == Head(rest)
             last == kept[Len(kept)]
         IN  overlap_loop(
                IF entity.start_pos >= last.end_pos THEN Append(kept, entity)
                ELSE IF entity.confidence > last.confidence
                THEN [kept EXCEPT ![Len(kept)] = entity]
                ELSE kept,
                Tail(rest))

\* variant: the loop over the list as given, without sorting it
remove_overlaps_unsorted(entities) ==
    IF entities = <<>> THEN <<>>
    ELSE overlap_loop(<<Head(entities)>>, Tail(entities))

\* PIIAnonymizer._remove_overlaps
remove_overlaps(entities) ==
    IF entities = <<>> THEN <<>>
    ELSE With(SortByStart(entities), LAMBDA sorted_entities :
            overlap_loop(<<Head(sorted_entities)>>, Tail(sorted_entities)))

\* PIIAnonymizer.detect_pii
detect_pii(text) ==
    remove_overlaps(pattern_detections(text) \o name_detections(text))

\* pii_type.value.upper()
TypeUpper(pii_type) ==
    CASE pii_type = "cedula" -> <<"C", "E", "D", "U", "L", "A">>
      [] pii_type = "name" -> <<"N", "A", "M", "E">>
      [] pii_type = "email" -> <<"E", "M", "A", "I", "L">>
      [] pii_type = "phone" -> <<"P", "H", "O", "N", "E">>
      [] pii_type = "credit_card" ->
            <<"C", "R", "E", "D", "I", "T", "_", "C", "A", "R", "D">>
      [] pii_type = "date_of_birth" ->
            <<"D", "A", "T", "E", "_", "O", "F", "_", "B", "I", "R", "T", "H">>

HexDigits == <<"0", "1", "2", "3", "4", "5", "6", "7", "8", "9",
               "a", "b", "c", "d", "e", "f">>

\* the characters hashed in the model, for a number of each
Alphabet ==
    Lowers \o Uppers \o SubSeq(HexDigits, 1, 10)
        \o <<" ", "[", "]", "_", "-", ".", ":", "@", "/", "+", "(", ")", "|", "%",
              "á", "é", "í", "ó", "ú", "ñ">>

Code(c) == CHOOSE i \in DOMAIN Alphabet : Alphabet[i] = c

\* the number of different values the 8 hex digits of the model's hash take
HashRange == 2

RECURSIVE Mix(_, _, _)
Mix(salt_, chars, i) ==
    IF i > Len(chars) THEN 0
    ELSE Code(chars[i]) * (salt_ + i) + Mix(salt_, chars, i + 1)

\* hashlib.sha256(f"{salt}:{type}:{value}".encode()).hexdigest()[:8]: eight
\* hex digits that are a function of salt, type and value; the model's
\* function has HashRange values where SHA-256 cut to 8 digits has 16^8
sha8(salt_, pii_type, value) ==
    [i \in 1..8 |->
        IF i < 8 THEN "0"
        ELSE HexDigits[1 + (Mix(salt_, TypeUpper(pii_type) \o <<":">> \o value, 1)
                                % HashRange)]]

\* PIIAnonymizer._generate_token
generate_token(salt_, pii_type, value) ==
    <<"[">> \o TypeUpper(pii_type) \o <<"_">> \o sha8(salt_, pii_type, value)
        \o <<"]">>

\* a Python dict as the list of its items in insertion order
DictKeys(d) == {d[i].key : i \in DOMAIN d}
\* d[key] = value: a new key goes to the end, a known key keeps its place
DictSet(d, key, value) ==
    IF key \in DictKeys(d)
    THEN [i \in DOMAIN d |-> IF d[i].key = key THEN [key |-> key, value |-> value]
                             ELSE d[i]]
    ELSE Append(d, [key |-> key, value |-> value])

\* list(reversed(entities))
Reversed(entities) ==
    [i \in DOMAIN entities |-> entities[Len(entities) + 1 - i]]

\* detected.sort(key=lambda x: x.start_pos, reverse=True): the order in
\* which anonymize replaces; the start positions are all different
replacement_order(detected) == Reversed(SortByStart(detected))

RECURSIVE anonymize_loop(_, _, _)
\* the loop of anonymize over the entities still to replace
anonymize_loop(acc, entities, salt_) ==
    IF entities = <<>> THEN acc
    ELSE LET entity == Head(entities)
         IN  With(generate_token(salt_, entity.pii_type, entity.original_value),
                  LAMBDA token :
                anonymize_loop(
                    [anonymized |->
                        Slice(acc.anonymized, 0, entity.start_pos) \o token
                            \o Slice(acc.anonymized, entity.end_pos,
                                     Len(acc.anonymized)),
                     mapping |-> DictSet(acc.mapping, token, entity.original_value),
                     reverse_mapping |->
                        DictSet(acc.reverse_mapping, entity.original_value, token)],
                    Tail(entities), salt_))

\* PIIAnonymizer.anonymize
anonymize(text, salt_) ==
    With(detect_pii(text), LAMBDA found :
        IF found = <<>>
        THEN [anonymized_text |-> text, detected_entities |-> <<>>,
              mapping |-> <<>>, reverse_mapping |-> <<>>]
        ELSE With(replacement_order(found), LAMBDA detected :
             With(anonymize_loop([anonymized |-> text, mapping |-> <<>>,
                                  reverse_mapping |-> <<>>], detected, salt_),
                  LAMBDA done :
                [anonymized_text |-> done.anonymized,
                 detected_entities |-> Reversed(detected),
                 mapping |-> done.mapping,
                 reverse_mapping |-> done.reverse_mapping])))

RECURSIVE deanonymize(_, _)
\* PIIAnonymizer.deanonymize: one replace per item of mapping, in order
deanonymize(text, mapping) ==
    IF mapping = <<>> THEN text
    ELSE deanonymize(replace(text, Head(mapping).key, Head(mapping).value),
                     Tail(mapping))

-----------------------------------------------------------------------------
(* the messages of the model and the callers of the anonymizer *)

\* the pieces the texts are made of
Lexicon == {
    <<"j", "u", "a", "n">>,
    <<"a", "n", "a">>,
    <<"l", "u", "i", "s">>,
    <<" ">>,
    <<"1", "2", "3", "4", "5", "6", "7", "8">>,
    <<"[", "N", "A", "M", "E", "_", "0", "0", "0", "0", "0", "0", "0", "0", "]">> }

\* the most pieces in a text, and the largest salt
MaxPieces == 3
MaxSalt == 1

Texts ==
    {Flatten(pieces) : pieces \in UNION {[1..n -> Lexicon] : n \in 0..MaxPieces}}

\* nothing handed over, and a text handed over
NoText == <<>>
Given(text) == <<text>>

AnonInit ==
    /\ citizen_text \in Texts
    /\ salt \in 0..MaxSalt
    /\ anonymization = NoAnonymization
    /\ safe_text = NoText
    /\ restored = NoText
    /\ WorkflowIdle
    /\ ExtIdle

\* process_message, main.py:440-447: the text of the message is anonymized
\* and the anonymized text goes to _detect_intent
ProcessMessage ==
    /\ safe_text = NoText
    /\ IF citizen_text # <<>>
       THEN \E anonymization_result \in {anonymize(citizen_text, salt)} :
                /\ anonymization' = anonymization_result
                /\ safe_text' = Given(anonymization_result.anonymized_text)
       ELSE /\ safe_text' = Given(<<>>)
            /\ UNCHANGED anonymization
    /\ UNCHANGED <<citizen_text, salt, restored, wfvars, extvars>>

\* a caller restores the text of an AnonymizationResult with its mapping
Deanonymize ==
    /\ anonymization # NoAnonymization
    /\ restored = NoText
    /\ restored' = Given(deanonymize(anonymization.anonymized_text,
                                     anonymization.mapping))
    /\ UNCHANGED <<citizen_text, salt, anonymization, safe_text, wfvars, extvars>>

AnonNext ==
    \/ ProcessMessage
    \/ Deanonymize

AnonSpec == AnonInit /\ [][AnonNext]_vars

\* the step invokes a handler, through step or in the loop of run, and the
\* handler returns
HandlerReturns ==
    /\ state.current_step \in HandledSteps
    /\ \/ /\ \E data \in StepData : StepProcedure(data)
          /\ call'.status = "returned"
       \/ /\ RunIter
          /\ transitions(state).exc = <<>>

IsPrefix(a, b) == Len(a) <= Len(b) /\ SubSeq(b, 1, Len(a)) = a

\* C20 as stated: no step removes or alters a message, and every handler
\* invocation that returns, whether it advances, stalls or moves to ERROR,
\* leaves at least one more message than it found.
C20_HandlersAlwaysSay ==
    [][/\ IsPrefix(state.messages, state'.messages)
       /\ HandlerReturns => Len(state'.messages) > Len(state.messages)]_vars

-----------------------------------------------------------------------------
(* properties of the anonymizer *)

\* C9 as stated: the text handed to intent classification is the output of
\* anonymize for the citizen's message, and it contains none of the PII
\* values that detection found in the message.
C9_SafeTextHoldsNoDetectedPII ==
    safe_text # NoText
        => /\ safe_text = Given(anonymize(citizen_text, salt).anonymized_text)
           /\ \A i \in DOMAIN anonymization.detected_entities :
                ~Contains(safe_text[1],
                          anonymization.detected_entities[i].original_value)

\* the detections, in the order of the text, do not overlap
NonOverlapping(entities) ==
    \A i, j \in DOMAIN entities :
        i < j => entities[i].end_pos <= entities[j].start_pos

\* no generated token occurs in the text or in an original value
NoNaturalCollision(text, anonymized) ==
    \A i \in DOMAIN anonymized.mapping :
        /\ ~Contains(text, anonymized.mapping[i].key)
        /\ \A j \in DOMAIN anonymized.detected_entities :
              ~Contains(anonymized.detected_entities[j].original_value,
                        anonymized.mapping[i].key)

\* C10 as stated: for a text whose detections do not overlap,
\* deanonymize(anonymize(text).anonymized_text, anonymize(text).mapping) is
\* the text, provided no generated token occurs in the text or in an
\* original value.
C10_RoundTrip ==
    (/\ restored # NoText
     /\ NonOverlapping(anonymization.detected_entities)
     /\ NoNaturalCollision(citizen_text, anonymization))
        => restored = Given(citizen_text)

-----------------------------------------------------------------------------
(* _remove_overlaps on its own: any list of detections *)

\* the most candidates in a list, and the last offset of a span
MaxCandidates == 3
MaxPos == 3

\* the text the candidate detections are spans of
OverlapText == <<"a", "n", "a", "1", "2", "3">>

\* the two confidences detect_pii gives: 0.9 to a pattern, 0.7 to a name
PatternConfidence == 90
NameConfidence == 70

\* a detection of a non-empty span of the text
Candidates ==
    {DetectedPII(IF c = PatternConfidence THEN "cedula" ELSE "name",
                 Slice(OverlapText, a, b), a, b, c) :
        <<a, b, c>> \in {t \in (0..MaxPos) \X (0..MaxPos)
                                \X {PatternConfidence, NameConfidence} :
                            t[1] < t[2]}}

CandidateLists == UNION {[1..n -> Candidates] : n \in 0..MaxCandidates}

OverlapInit ==
    /\ candidates \in CandidateLists
    /\ resolved = NotResolved
    /\ WorkflowIdle
    /\ AnonymizerIdle
    /\ TrackingIdle
    /\ LegalIdle
    /\ GestorIdle
    /\ ServerIdle

\* a caller hands the list to _remove_overlaps
RemoveOverlaps ==
    /\ resolved = NotResolved
    /\ resolved' = <<remove_overlaps(candidates)>>
    /\ UNCHANGED <<candidates, wfvars, anvars, trvars, lgvars, gsvars, svvars>>

OverlapNext == RemoveOverlaps

OverlapSpec == OverlapInit /\ [][OverlapNext]_vars

\* two spans share an offset
Overlap(a, b) == a.start_pos < b.end_pos /\ b.start_pos < a.end_pos

-----------------------------------------------------------------------------
(* services/tracking_service.py.  A PIN is a sequence of characters; the    *)
(* radicado and the timestamps of a trámite, which no operation reads back   *)
(* into a decision, are left out of the record.                              *)

\* EstadoTramite, the values in the order of the enum
EstadoTramite == <<"iniciado", "identidad_verificada", "documentos_revisados",
                   "en_revision_legal", "cita_agendada", "listo_para_recoger",
                   "entregado", "rechazado">>

INICIADO == EstadoTramite[1]
CITA_AGENDADA == EstadoTramite[5]
LISTO == EstadoTramite[6]
ENTREGADO == EstadoTramite[7]
RECHAZADO == EstadoTramite[8]

\* MENSAJES_ESTADO
MENSAJES_ESTADO == [e \in Range(EstadoTramite) |->
    CASE e = "iniciado" ->
            "Tu trámite fue recibido y está en espera de verificación de identidad."
      [] e = "identidad_verificada" ->
            "Tu identidad fue verificada exitosamente. Estamos revisando tus documentos."
      [] e = "documentos_revisados" ->
            "Tus documentos fueron revisados. Tu caso está en revisión legal."
      [] e = "en_revision_legal" ->
            "Tu trámite está en revisión legal. Tiempo estimado: 3-5 días hábiles."
      [] e = "cita_agendada" ->
            "¡Tu cita está agendada! Recuerda llevar los documentos originales."
      [] e = "listo_para_recoger" ->
            "¡Tu documento está LISTO para recoger! Visita la oficina con tu cédula."
      [] e = "entregado" ->
            "Tu documento fue entregado exitosamente. ¡Gracias por usar IDENTIA!"
      [] e = "rechazado" ->
            "Tu trámite fue rechazado. Por favor visita la oficina para más información."]

\* variant: every upper-case letter and digit
caracteres_all == Uppers \o <<"0", "1", "2", "3", "4", "5", "6", "7", "8", "9">>

\* generar_pin: string.ascii_uppercase + string.digits without O, 0, I, 1
caracteres ==
    SelectSeq(Uppers \o <<"0", "1", "2", "3", "4", "5", "6", "7", "8", "9">>,
              LAMBDA c : c \notin {"O", "0", "I", "1"})

\* what random.choices(population, k=k) can return
choices(population, k) == [1..k -> Range(population)]

\* variant: no look at the registry
pin_is_free_always(pin, db) == TRUE

\* generar_pin: pin not in _tramites_db
pin_is_free(pin, db) == pin \notin DOMAIN db

\* d[key] = value
Put(d, key, value) ==
    [k \in DOMAIN d \cup {key} |-> IF k = key THEN value ELSE d[k]]

\* _tipo_legible, for the types of the model
tipo_legible(tipo) ==
    CASE tipo = "cedula_duplicado" -> "Cédula de Ciudadanía - Duplicado"
      [] tipo = "apostilla" -> "Apostilla de Documentos"
      [] OTHER -> tipo

\* crear_tramite: the record stored under the PIN
Tramite(pin, tipo, session_id) ==
    [pin |-> pin,
     tipo |-> tipo,
     tipo_legible |-> tipo_legible(tipo),
     estado |-> INICIADO,
     historial |-> <<[estado |-> INICIADO,
                      nota |-> "Trámite iniciado desde IDENTIA"]>>,
     cita |-> <<>>,
     session_id |-> session_id]

\* str.upper() of one character, and pin.upper()
ToUpper(c) ==
    IF c \in Range(Lowers)
    THEN Uppers[CHOOSE i \in DOMAIN Lowers : Lowers[i] = c]
    ELSE c

upper(text) == [i \in DOMAIN text |-> ToUpper(text[i])]

RECURSIVE lstrip(_)
lstrip(text) ==
    IF text # <<>> /\ Head(text) \in Whitespace THEN lstrip(Tail(text)) ELSE text

RECURSIVE rstrip(_)
rstrip(text) ==
    IF text # <<>> /\ text[Len(text)] \in Whitespace
    THEN rstrip(SubSeq(text, 1, Len(text) - 1))
    ELSE text

\* text.strip()
strip(text) == rstrip(lstrip(text))

\* round(n / d) of Python: to the nearest integer, a tie to the even one
round_div(n, d) ==
    LET q == n \div d
        r == n % d
    IN  IF 2 * r < d THEN q
        ELSE IF 2 * r > d THEN q + 1
        ELSE IF q % 2 = 0 THEN q ELSE q + 1

\* estados_orden.index(estado) if estado in estados_orden else 0
idx_actual(estado) ==
    IF estado \in Range(EstadoTramite)
    THEN (CHOOSE i \in DOMAIN EstadoTramite : EstadoTramite[i] = estado) - 1
    ELSE 0

\* variant: the index over the states up to LISTO
porcentaje_up_to_listo(estado) ==
    round_div(idx_actual(estado) * 100, Len(EstadoTramite) - 3)

\* round((idx_actual / (len(estados_orden) - 2)) * 100)
porcentaje(estado) ==
    round_div(idx_actual(estado) * 100, Len(EstadoTramite) - 2)

Min(a, b) == IF a < b THEN a ELSE b

\* tramite["historial"][-3:]
Last3(historial) ==
    SubSeq(historial, IF Len(historial) > 3 THEN Len(historial) - 2 ELSE 1,
           Len(historial))

\* consultar_estado_pin: what it returns for the registry db (the message
\* without its back quotes and its radicado)
consultar_estado_pin(db, pin_arg) ==
    With(strip(upper(pin_arg)), LAMBDA pin :
        IF pin \notin DOMAIN db
        THEN [encontrado |-> FALSE,
              mensaje |-> "No encontré ningún trámite con el PIN **"
                  \o JoinStr(pin, "")
                  \o "**. Por favor verifique que el PIN sea correcto (6 caracteres, ej: A3K7P2). "
                  \o "Si necesita ayuda, llame al 01 8000 111 555."]
        ELSE
        LET tramite == db[pin]
            estado == tramite.estado
            mensaje_estado == IF estado \in DOMAIN MENSAJES_ESTADO
                              THEN MENSAJES_ESTADO[estado]
                              ELSE "Estado en proceso."
        IN  [encontrado |-> TRUE,
             pin |-> pin,
             tipo |-> tramite.tipo_legible,
             estado |-> estado,
             porcentaje |-> Min(porcentaje(estado), 100),
             mensaje |-> "**Estado de su trámite de " \o tramite.tipo_legible
                  \o "**\n\nPIN: " \o JoinStr(pin, "")
                  \o "\n\n**Estado actual:** " \o mensaje_estado
                  \o "\n\n**Progreso:** "
                  \o ToString(Min(porcentaje(estado), 100)) \o "%",
             cita |-> tramite.cita,
             historial |-> Last3(tramite.historial)])

\* variant: an unknown PIN gets a record of its own
actualizar_estado_upsert(db, pin_arg, nuevo_estado, nota, datos_cita) ==
    With(strip(upper(pin_arg)), LAMBDA pin :
        [db |-> Put(db, pin, [Tramite(pin, "", <<>>) EXCEPT !.estado = nuevo_estado]),
         returned |-> TRUE])

\* variant: the historial is rewritten to hold the new entry alone
actualizar_estado_last_only(db, pin_arg, nuevo_estado, nota, datos_cita) ==
    With(strip(upper(pin_arg)), LAMBDA pin :
        IF pin \notin DOMAIN db
        THEN [db |-> db, returned |-> FALSE]
        ELSE [db |-> [db EXCEPT ![pin] =
                        [@ EXCEPT
                            !.estado = nuevo_estado,
                            !.historial =
                                <<[estado |-> nuevo_estado,
                                   nota |-> IF nota # <<>> /\ nota[1] # ""
                                            THEN nota[1]
                                            ELSE "Estado actualizado a: "
                                                     \o nuevo_estado]>>,
                            !.cita = IF datos_cita # <<>> /\ datos_cita[1] # EmptyDict
                                     THEN datos_cita ELSE @]],
              returned |-> TRUE])

\* actualizar_estado: the registry it leaves and the value it returns;
\* nota and datos_cita are <<>> for None
actualizar_estado(db, pin_arg, nuevo_estado, nota, datos_cita) ==
    With(strip(upper(pin_arg)), LAMBDA pin :
        IF pin \notin DOMAIN db
        THEN [db |-> db, returned |-> FALSE]
        ELSE [db |-> [db EXCEPT ![pin] =
                        [@ EXCEPT
                            !.estado = nuevo_estado,
                            !.historial = Append(@,
                                [estado |-> nuevo_estado,
                                 nota |-> IF nota # <<>> /\ nota[1] # ""
                                          THEN nota[1]
                                          ELSE "Estado actualizado a: "
                                                   \o nuevo_estado]),
                            !.cita = IF datos_cita # <<>> /\ datos_cita[1] # EmptyDict
                                     THEN datos_cita ELSE @]],
              returned |-> TRUE])

(* the callers of the tracking service *)

\* the most calls of actualizar_estado that find their trámite
MaxUpdates == 2

RECURSIVE Updates(_)
\* the entries that actualizar_estado has appended to the historiales
Updates(db) ==
    IF DOMAIN db = {} THEN 0
    ELSE LET pin == CHOOSE p \in DOMAIN db : TRUE
         IN  Len(db[pin].historial) - 1
             + Updates([p \in DOMAIN db \ {pin} |-> db[p]])

\* outcomes of random.choices to consider, and strings that are none
PinSamples == {
    <<"A", "3", "K", "7", "P", "2">>,
    <<"B", "4", "M", "8", "Q", "5">>,
    <<"A", "0", "K", "7", "P", "2">>,
    <<"O", "I", "K", "7", "P", "1">>,
    <<"A", "3", "K", "7", "P">> }

\* ''.join(random.choices(caracteres, k=6))
PinDraws == {pin \in PinSamples : pin \in choices(caracteres, 6)}

\* the PINs a citizen types: one as issued, one in lower case between
\* blanks, and one that is never issued
PinInputs == {
    <<"A", "3", "K", "7", "P", "2">>,
    <<" ", "b", "4", "m", "8", "q", "5", " ">>,
    <<"z", "z", "9", "z", "z", "9">> }

TipoInputs == {"cedula_duplicado"}
SessionInputs == {<<"s1">>}
\* nuevo_estado is any string: values of the enum and one that is none
EstadoInputs == {LISTO, ENTREGADO, "archivado"}
\* nota and datos_cita: both None, or both given
UpdateInputs == {
    [nota |-> <<>>, datos_cita |-> <<>>],
    [nota |-> <<"Revisado">>,
     datos_cita |-> <<[fecha |-> "2026-11-10", hora |-> "09:00"]>>] }

TrackInit ==
    /\ TrackingIdle
    /\ WorkflowIdle
    /\ AnonymizerIdle
    /\ OverlapIdle
    /\ LegalIdle
    /\ GestorIdle
    /\ ServerIdle

\* crear_tramite: generar_pin returns a draw that is not in the registry
CrearTramite(tipo, session_id) ==
    \E pin \in PinDraws :
        /\ pin_is_free(pin, tramites_db)
        /\ tramites_db' = Put(tramites_db, pin, Tramite(pin, tipo, session_id))
        /\ tracking_call' = [op |-> "crear_tramite",
                             returned |-> [pin |-> pin,
                                           estado |-> INICIADO,
                                           tipo |-> tipo_legible(tipo)]]
        /\ UNCHANGED <<wfvars, anvars, ovvars, lgvars, gsvars, svvars>>

ConsultarEstadoPin(pin_arg) ==
    /\ tracking_call' = [op |-> "consultar_estado_pin",
                         pin |-> pin_arg,
                         returned |-> consultar_estado_pin(tramites_db, pin_arg)]
    /\ UNCHANGED <<tramites_db, wfvars, anvars, ovvars, lgvars, gsvars, svvars>>

ActualizarEstado(pin_arg, nuevo_estado, nota, datos_cita) ==
    /\ Updates(tramites_db) < MaxUpdates
    /\ \E out \in {actualizar_estado(tramites_db, pin_arg, nuevo_estado,
                                      nota, datos_cita)} :
            /\ tramites_db' = out.db
            /\ tracking_call' = [op |-> "actualizar_estado",
                                 pin |-> pin_arg,
                                 returned |-> out.returned]
    /\ UNCHANGED <<wfvars, anvars, ovvars, lgvars, gsvars, svvars>>

\* what agendar_cita_google passes on: the note of the booking and its data
CalendarUpdate ==
    [nota |-> <<"Cita agendada el 2026-11-10 a las 09:00">>,
     datos_cita |-> <<[fecha |-> "2026-11-10", hora |-> "09:00"]>>]

\* agendar_cita_google with a pin_tramite, the booking having succeeded:
\* the trámite is moved to CITA_AGENDADA
AgendarCitaGoogle(pin_arg) ==
    ActualizarEstado(pin_arg, CITA_AGENDADA, CalendarUpdate.nota,
                     CalendarUpdate.datos_cita)

TrackNext ==
    \/ \E tipo \in TipoInputs, session_id \in SessionInputs :
            CrearTramite(tipo, session_id)
    \/ \E pin_arg \in PinInputs : ConsultarEstadoPin(pin_arg)
    \/ \E pin_arg \in PinInputs, nuevo_estado \in EstadoInputs,
          update \in UpdateInputs :
            ActualizarEstado(pin_arg, nuevo_estado, update.nota,
                             update.datos_cita)
    \/ \E pin_arg \in PinInputs : AgendarCitaGoogle(pin_arg)

TrackSpec == TrackInit /\ [][TrackNext]_vars

-----------------------------------------------------------------------------
(* properties of the tracking service *)

\* the step is a call of op on the tracking service
TrackingStep(op) ==
    /\ tracking_call'.op = op
    /\ <<tramites_db, tracking_call>>' # <<tramites_db, tracking_call>>

\* C12: the PIN crear_tramite returns has exactly 6 characters, none of them
\* O, 0, I or 1, and is the PIN of no trámite already in the registry; the
\* creation adds one record under that PIN and leaves every record of the
\* registry as it was.
C12_PinFreshAndUnambiguous ==
    [][TrackingStep("crear_tramite") =>
        LET pin == tracking_call'.returned.pin
        IN  /\ Len(pin) = 6
            /\ \A i \in DOMAIN pin : pin[i] \notin {"O", "0", "I", "1"}
            /\ pin \notin DOMAIN tramites_db
            /\ DOMAIN tramites_db' = DOMAIN tramites_db \cup {pin}
            /\ tramites_db'[pin].pin = pin
            /\ \A p \in DOMAIN tramites_db : tramites_db'[p] = tramites_db[p]]_vars

\* a second creation found the first draw taken and returned another PIN
C12_Witness ==
    /\ tracking_call.op = "crear_tramite"
    /\ Cardinality(DOMAIN tramites_db) = 2
    /\ \A p \in DOMAIN tramites_db : tramites_db[p].pin = p

\* the last call was consultar_estado_pin and it found a trámite in estado
Consulted(estado) ==
    /\ tracking_call.op = "consultar_estado_pin"
    /\ tracking_call.returned.encontrado
    /\ tracking_call.returned.estado = estado

\* C13 as stated: consultar_estado_pin reports 0% for a trámite in INICIADO
\* and 100% for one that actualizar_estado moved to LISTO.
C13_ListoIsComplete ==
    /\ Consulted(INICIADO) => tracking_call.returned.porcentaje = 0
    /\ Consulted(LISTO) => tracking_call.returned.porcentaje = 100

\* C13 amended: consultar_estado_pin reports 0% for a trámite in INICIADO,
\* 83% for one moved to LISTO and 100% for one moved to ENTREGADO.
C13_ProgressByEstado ==
    /\ Consulted(INICIADO) => tracking_call.returned.porcentaje = 0
    /\ Consulted(LISTO) => tracking_call.returned.porcentaje = 83
    /\ Consulted(ENTREGADO) => tracking_call.returned.porcentaje = 100

\* a trámite was moved to LISTO and then looked up
C13_Witness ==
    /\ Consulted(LISTO)
    /\ \E p \in DOMAIN tramites_db :
            /\ Len(tramites_db[p].historial) = 2
            /\ tramites_db[p].historial[1].estado = INICIADO
            /\ tramites_db[p].historial[2].estado = LISTO
            /\ tracking_call.returned.pin = p

\* C15: consultar_estado_pin and actualizar_estado, called with a PIN whose
\* upper-cased, trimmed form is not in the registry, return the not-found
\* value (encontrado = False with a message naming the help line, and False)
\* and leave the registry as it was.
C15_UnknownPinIsNotFound ==
    [][(/\ \/ TrackingStep("consultar_estado_pin")
           \/ TrackingStep("actualizar_estado")
        /\ strip(upper(tracking_call'.pin)) \notin DOMAIN tramites_db)
        => /\ tramites_db' = tramites_db
           /\ tracking_call'.op = "consultar_estado_pin"
                => /\ ~tracking_call'.returned.encontrado
                   /\ tracking_call'.returned.mensaje
                        = "No encontré ningún trámite con el PIN **"
                          \o JoinStr(strip(upper(tracking_call'.pin)), "")
                          \o "**. Por favor verifique que el PIN sea correcto (6 caracteres, ej: A3K7P2). "
                          \o "Si necesita ayuda, llame al 01 8000 111 555."
           /\ tracking_call'.op = "actualizar_estado"
                => tracking_call'.returned = FALSE]_vars

\* actualizar_estado was called with a PIN that no trámite of the registry has
C15_Witness ==
    /\ tracking_call.op = "actualizar_estado"
    /\ tracking_call.returned = FALSE
    /\ tramites_db # <<>>
    /\ strip(upper(tracking_call.pin)) # tracking_call.pin

\* C16 as stated: the estado of every trámite in the registry is one of the
\* values of EstadoTramite.
C16_EstadoIsEnumValue ==
    \A p \in DOMAIN tramites_db :
        tramites_db[p].estado \in Range(EstadoTramite)

-----------------------------------------------------------------------------
(* LegalAgent.process on its own *)

\* procedure types: the three of the regulations table and two that are not
LegalTypes == DOMAIN regulations_db \cup {"pasaporte", ""}

\* citizen_data: age absent, 16, 17, 18, 30 or None; is_resident absent,
\* False or True
LegalCitizens ==
    {Update(a, r) :
        a \in {EmptyDict, [age |-> Num(16)], [age |-> Num(17)],
                [age |-> Num(18)], [age |-> Num(30)], [age |-> NoneV]},
        r \in {EmptyDict, [is_resident |-> Bool(FALSE)],
                [is_resident |-> Bool(TRUE)]}}

\* documents: any of the documents of cedula_renovation and acta_nacimiento,
\* and one the table does not name
LegalDocumentKeys ==
    {"cedula_anterior", "foto_reciente", "comprobante_pago",
     "cedula_solicitante", "datos_titular", "photo"}

LegalDocuments ==
    {[k \in keys |-> ValidDocument] : keys \in SUBSET LegalDocumentKeys}

LegalInit ==
    /\ legal_state \in [procedure_type : LegalTypes,
                         citizen_data : LegalCitizens,
                         documents : LegalDocuments]
    /\ legal_result = NoLegalCall
    /\ WorkflowIdle
    /\ AnonymizerIdle
    /\ OverlapIdle
    /\ TrackingIdle
    /\ GestorIdle
    /\ ServerIdle

\* a caller awaits LegalAgent.process(state)
LegalCall ==
    /\ legal_result = NoLegalCall
    /\ legal_result' = LegalProcess(legal_state)
    /\ legal_result' # NoLegalCall
    /\ UNCHANGED <<legal_state, wfvars, anvars, ovvars, trvars, gsvars, svvars>>

LegalNext == LegalCall

LegalSpec == LegalInit /\ [][LegalNext]_vars

\* the rules of the type that _check_eligibility evaluates hold for the
\* citizen: age at least age_min when the type defines it, and a true
\* is_resident when the type requires residency
SatisfiesRules(citizen_data, rules) ==
    /\ "age_min" \in DOMAIN rules
         => /\ "age" \in DOMAIN citizen_data
            /\ citizen_data["age"].py = "num"
            /\ citizen_data["age"].n >= rules["age_min"].n
    /\ ("residency_required" \in DOMAIN rules
            /\ rules["residency_required"] = Bool(TRUE))
         => /\ "is_resident" \in DOMAIN citizen_data
            /\ citizen_data["is_resident"] = Bool(TRUE)

\* the age is a number below the age_min of the type
BelowAgeMin(lstate) ==
    /\ lstate.procedure_type \in DOMAIN regulations_db
    /\ "age_min" \in DOMAIN regulations_db[lstate.procedure_type].eligibility
    /\ "age" \in DOMAIN lstate.citizen_data
    /\ lstate.citizen_data["age"].py = "num"
    /\ lstate.citizen_data["age"].n
         < regulations_db[lstate.procedure_type].eligibility["age_min"].n

\* C14: LegalAgent.process returns COMPLETED only if the procedure type is
\* in the regulations table, the citizen satisfies the age and residency
\* rules of the type and every required document of the type is among the
\* documents; for a citizen below age_min it returns NEEDS_INFO with a
\* message and an eligibility result that list the age issue; for a type
\* that is not in the table it returns FAILED.
C14_LegalGate ==
    legal_result # NoLegalCall =>
        /\ (legal_result.exc = <<>> /\ legal_result.val.status = "completed")
              => /\ legal_state.procedure_type \in DOMAIN regulations_db
                 /\ SatisfiesRules(legal_state.citizen_data,
                        regulations_db[legal_state.procedure_type].eligibility)
                 /\ \A doc \in Range(regulations_db[legal_state.procedure_type].requirements) :
                        doc \in DOMAIN legal_state.documents
        /\ BelowAgeMin(legal_state)
              => /\ legal_result.exc = <<>>
                 /\ legal_result.val.status = "needs_info"
                 /\ legal_result.val.data.eligibility.issues # <<>>
                 /\ legal_result.val.data.eligibility.issues[1]
                        = "Edad mínima requerida: 18 años"
                 /\ legal_result.val.message
                        = "Se identificaron los siguientes requisitos pendientes: "
                          \o JoinStr(legal_result.val.data.eligibility.issues
                                     \o (IF legal_result.val.data.missing_documents = <<>>
                                         THEN <<>>
                                         ELSE <<"Documentos faltantes: "
                                                \o JoinStr(legal_result.val.data.missing_documents, ", ")>>),
                                     "; ")
        /\ legal_state.procedure_type \notin DOMAIN regulations_db
              => /\ legal_result.exc = <<>>
                 /\ legal_result.val.status = "failed"

\* a resident of 16 with every document of cedula_renovation is held back
C14_Witness ==
    /\ legal_result # NoLegalCall
    /\ legal_state.procedure_type = "cedula_renovation"
    /\ legal_state.citizen_data = [age |-> Num(16), is_resident |-> Bool(TRUE)]
    /\ \A doc \in Range(regulations_db["cedula_renovation"].requirements) :
            doc \in DOMAIN legal_state.documents
    /\ legal_result.val.status = "needs_info"

-----------------------------------------------------------------------------
(* main.py as a server: step requests that are in flight together.  Every   *)
(* endpoint is a coroutine of one event loop (uvicorn.run, main.py:868); a   *)
(* coroutine keeps the loop until it returns or awaits something that        *)
(* suspends it.  step_procedure awaits workflow.step, whose handlers await   *)
(* the agents, and no agent awaits anything.                                 *)

\* the requests that can be in flight together
MaxTasks == 2
TaskIds == 1..MaxTasks

ProcedureIds == {"p1", "p2"}

\* the procedure_id of a step request: one of the registry or an unknown one
RequestIds == ProcedureIds \cup {"p0"}

\* the bodies of the step requests
ServerData ==
    {EmptyDict,
     [citizen_data |->
        [preferences |-> Dict([preferred_time |-> Str("10:00")])]]}

FreeTask == [pc |-> "free", procedure_id |-> "", data |-> EmptyDict,
             seen |-> EmptyDict]

\* variant: a handler is entered or resumed whatever else is running, as if
\* every await handed the loop to the other requests
MayRun_any(task, holder) == TRUE

\* the event loop enters or resumes the handler of a request only when no
\* other handler holds the loop
MayRun(task, holder) == holder \in {NoTask, task}

\* the registry holds procedures that are ready to be stepped through
ServerInit ==
    /\ procedures = [id \in ProcedureIds |->
                        ProcedureState("cedula_renovation", AdultCitizen,
                                       AllDocuments, GoodBiometrics)]
    /\ tasks = [t \in TaskIds |-> FreeTask]
    /\ running = NoTask
    /\ WorkflowIdle
    /\ AnonymizerIdle
    /\ OverlapIdle
    /\ TrackingIdle
    /\ LegalIdle
    /\ GestorIdle

\* a client sends POST /api/procedures/{procedure_id}/step
Receive(t, procedure_id, data) ==
    /\ tasks[t].pc = "free"
    /\ tasks' = [tasks EXCEPT ![t] = [pc |-> "pending",
                                      procedure_id |-> procedure_id,
                                      data |-> data,
                                      seen |-> EmptyDict]]
    /\ UNCHANGED <<procedures, running, wfvars, anvars, ovvars, trvars, lgvars, gsvars>>

\* step_procedure up to its await, main.py:348-360: an unknown procedure_id
\* ends the request with 404; otherwise the state is looked up and the data
\* of the request is written into it
Begin(t) ==
    /\ tasks[t].pc = "pending"
    /\ MayRun(t, running)
    /\ IF tasks[t].procedure_id \notin DOMAIN procedures
       THEN /\ tasks' = [tasks EXCEPT ![t] = FreeTask]
            /\ running' = NoTask
            /\ UNCHANGED procedures
       ELSE /\ running' = t
            /\ tasks' = [tasks EXCEPT
                            ![t].pc = "awaiting",
                            ![t].seen = procedures[tasks[t].procedure_id]]
            /\ procedures' = [procedures EXCEPT ![tasks[t].procedure_id] =
                                    ApplyData(@, tasks[t].data)]
    /\ UNCHANGED <<wfvars, anvars, ovvars, trvars, lgvars, gsvars>>

\* step_procedure from its await on, main.py:363-375: the handler of the
\* current step runs on the state, the state is stored and the response
\* returned; an exception of the handler ends the request
End(t) ==
    /\ tasks[t].pc = "awaiting"
    /\ MayRun(t, running)
    /\ \E h \in {step(procedures[tasks[t].procedure_id])} :
            /\ Len(h.state.messages) <= MaxMessages
            /\ procedures' = [procedures EXCEPT ![tasks[t].procedure_id] = h.state]
    /\ tasks' = [tasks EXCEPT ![t] = FreeTask]
    /\ running' = NoTask
    /\ UNCHANGED <<wfvars, anvars, ovvars, trvars, lgvars, gsvars>>

ServerNext ==
    \/ \E t \in TaskIds, procedure_id \in RequestIds, data \in ServerData :
            Receive(t, procedure_id, data)
    \/ \E t \in TaskIds : Begin(t)
    \/ \E t \in TaskIds : End(t)

ServerSpec == ServerInit /\ [][ServerNext]_vars

\* the requests whose handler has begun on the procedure and not returned
InFlight(tks, procedure_id) ==
    {t \in DOMAIN tks : /\ tks[t].pc = "awaiting"
                         /\ tks[t].procedure_id = procedure_id}

C19_NoDoubleBooking ==
    \A p, q \in DOMAIN procedures :
        (/\ p # q
         /\ procedures[p].appointment # EmptyDict
         /\ procedures[q].appointment # EmptyDict)
            => <<procedures[p].appointment.office_id,
                 procedures[p].appointment.date,
                 procedures[p].appointment.time>>
               # <<procedures[q].appointment.office_id,
                   procedures[q].appointment.date,
                   procedures[q].appointment.time>>

-----------------------------------------------------------------------------
(* POST /api/tramites/iniciar requests that are in flight together:         *)
(* iniciar_tramite calls crear_tramite, which awaits nothing.               *)

CreateTipos == {"cedula_duplicado", "apostilla"}

FreeCreate == [pc |-> "free", tipo |-> "", pin |-> <<>>]

CreateInit ==
    /\ tramites_db = <<>>
    /\ tracking_call = NoTrackingCall
    /\ tasks = [t \in TaskIds |-> FreeCreate]
    /\ procedures = <<>>
    /\ running = NoTask
    /\ WorkflowIdle
    /\ AnonymizerIdle
    /\ OverlapIdle
    /\ LegalIdle
    /\ GestorIdle

\* a client sends POST /api/tramites/iniciar
ReceiveCreate(t, tipo) ==
    /\ tasks[t].pc = "free"
    /\ tasks' = [tasks EXCEPT ![t] = [pc |-> "pending", tipo |-> tipo,
                                      pin |-> <<>>]]
    /\ UNCHANGED <<tramites_db, tracking_call, procedures, running,
                   wfvars, anvars, ovvars, lgvars, gsvars>>

\* one pass through the loop of generar_pin: a draw, returned if it is not
\* in the registry
GenerarPin(t) ==
    /\ tasks[t].pc \in {"pending", "generar_pin"}
    /\ MayRun(t, running)
    /\ running' = t
    /\ \E pin \in PinDraws :
            tasks' = [tasks EXCEPT
                        ![t].pc = IF pin_is_free(pin, tramites_db)
                                  THEN "store" ELSE "generar_pin",
                        ![t].pin = IF pin_is_free(pin, tramites_db)
                                   THEN pin ELSE <<>>]
    /\ UNCHANGED <<tramites_db, tracking_call, procedures,
                   wfvars, anvars, ovvars, lgvars, gsvars>>

\* crear_tramite from the return of generar_pin on: the record is stored
\* under the PIN and the response returned
StoreTramite(t) ==
    /\ tasks[t].pc = "store"
    /\ MayRun(t, running)
    /\ tramites_db' = Put(tramites_db, tasks[t].pin,
                          Tramite(tasks[t].pin, tasks[t].tipo, <<>>))
    /\ tracking_call' = [op |-> "crear_tramite",
                         returned |-> [pin |-> tasks[t].pin,
                                       estado |-> INICIADO,
                                       tipo |-> tipo_legible(tasks[t].tipo)]]
    /\ tasks' = [tasks EXCEPT ![t] = FreeCreate]
    /\ running' = NoTask
    /\ UNCHANGED <<procedures, wfvars, anvars, ovvars, lgvars, gsvars>>

CreateNext ==
    \/ \E t \in TaskIds, tipo \in CreateTipos : ReceiveCreate(t, tipo)
    \/ \E t \in TaskIds : GenerarPin(t)
    \/ \E t \in TaskIds : StoreTramite(t)

CreateSpec == CreateInit /\ [][CreateNext]_vars

-----------------------------------------------------------------------------
(* further properties of the workflow                                       *)

\* a handler invocation through step or run: the step before has a handler
HandlerInvoked ==
    /\ state.current_step \in HandledSteps
    /\ \/ \E data \in StepData : StepProcedure(data)
       \/ RunIter

\* C21 as stated: validation_result, legal_result and appointment change
\* only in the invocation that passes their step (biometric validation to
\* document analysis, legal review to scheduling, scheduling to complete),
\* and only from empty: an invocation that stalls or fails leaves them as
\* they were and a written value is never replaced.
C21_OutputsWrittenOnceOnSuccess ==
    [][/\ state'.validation_result # state.validation_result
            => /\ state.current_step = BIOMETRIC_VALIDATION
               /\ state'.current_step = DOCUMENT_ANALYSIS
               /\ state.validation_result = EmptyDict
       /\ state'.legal_result # state.legal_result
            => /\ state.current_step = LEGAL_REVIEW
               /\ state'.current_step = SCHEDULING
               /\ state.legal_result = EmptyDict
       /\ state'.appointment # state.appointment
            => /\ state.current_step = SCHEDULING
               /\ state'.current_step = COMPLETE
               /\ state.appointment = EmptyDict]_vars

\* C22 as stated: every handler invocation, through run or through step,
\* and every transition to ERROR appends to step_history exactly one entry,
\* the current_step that results.
C22_HistoryRecordsEveryStep ==
    [][(HandlerInvoked \/ (state'.current_step = ERROR
                              /\ state.current_step # ERROR))
          => state'.step_history
                = Append(state.step_history, state'.current_step)]_vars

-----------------------------------------------------------------------------
(* the biometric step on its own: a procedure is created with biometric     *)
(* data, documents and a form, and stepped                                  *)

\* biometric_data: each of the three keys absent or given
BiometricCases ==
    LET face == {<<>>, <<Num(84)>>, <<Num(85)>>, <<Num(95)>>}
        voice == {<<>>, <<Num(0)>>, <<Num(90)>>}
        live == {<<>>, <<Bool(FALSE)>>, <<Bool(TRUE)>>}
        Entry(key, v) == IF v = <<>> THEN EmptyDict
                         ELSE [k \in {key} |-> v[1]]
    IN  {Update(Update(Entry("face_match_score", f),
                       Entry("voice_match_score", v)),
                Entry("liveness_check", l)) : f \in face, v \in voice, l \in live}

\* documents: all verified, the photo missing, empty, unverified, carrying
\* extracted data only, or not a record
DocumentCases ==
    {ValidatorDocuments,
     [cedula |-> ValidDocument, proof_of_address |-> ValidDocument],
     Update(ValidatorDocuments, [photo |-> Dict(EmptyDict)]),
     Update(ValidatorDocuments, [photo |-> Dict([verified |-> Bool(FALSE)])]),
     Update(ValidatorDocuments, [photo |-> Dict([data |-> Str("")])]),
     MalformedDocument}

\* the form: complete, empty, or with one field left blank
FormCases == {FormData, EmptyDict, Update(FormData, [telefono |-> Str("")])}

ValidatorInit ==
    /\ AnonymizerIdle
    /\ ExtIdle
    /\ \E c \in FormCases, d \in DocumentCases, b \in BiometricCases :
            state = ProcedureState("cedula_renovation", c, d, b)
    /\ pc = "idle"
    /\ call = [op |-> "none", status |-> "none"]
    /\ result = NoResult
    /\ typeEdited = FALSE

ValidatorNext == StepProcedure(EmptyDict)

ValidatorSpec == ValidatorInit /\ [][ValidatorNext]_vars

\* the documents are records, as the capture interface supplies them
DocumentsAreRecords(documents) ==
    \A k \in DOMAIN documents : documents[k].py = "dict"

\* face match of at least 0.85 and liveness, the three required documents
\* present and valid (marked verified, or carrying extracted data), and the
\* five fields of the form filled in
BiometricGate(s) ==
    /\ "face_match_score" \in DOMAIN s.biometric_data
    /\ s.biometric_data["face_match_score"].n >= 85
    /\ "liveness_check" \in DOMAIN s.biometric_data
    /\ s.biometric_data["liveness_check"] = Bool(TRUE)
    /\ \A doc \in {"cedula", "proof_of_address", "photo"} :
          /\ doc \in DOMAIN s.documents
          /\ \/ /\ "verified" \in DOMAIN s.documents[doc].d
                /\ s.documents[doc].d["verified"] = Bool(TRUE)
             \/ /\ "data" \in DOMAIN s.documents[doc].d
                /\ s.documents[doc].d["data"] # NoneV
    /\ \A f \in {"nombre", "cedula", "direccion", "telefono", "tipo_tramite"} :
          /\ f \in DOMAIN s.citizen_data
          /\ s.citizen_data[f] # Str("")

-----------------------------------------------------------------------------
(* GestorAgent.process on its own, for the action schedule                  *)

\* the types some office offers, and two that none offers
GestorTypes == get_all_services \cup {"pasaporte", ""}

\* preferences: empty; a preferred time that every office has, that only
\* some have, that none has; one that is not a string; and preferences that
\* are not a dict
GestorPreferences ==
    {Dict(EmptyDict),
     Dict([preferred_time |-> Str("10:00")]),
     Dict([preferred_time |-> Str("08:00")]),
     Dict([preferred_time |-> Str("16:00")]),
     Dict([preferred_time |-> Str("14:00")]),
     Dict([preferred_time |-> Str("12:30")]),
     Dict([preferred_time |-> NoneV]),
     Str("10:00")}

GestorInit ==
    /\ gestor_state \in [action : {"schedule"},
                          procedure_type : GestorTypes,
                          preferences : GestorPreferences]
    /\ gestor_result = NoGestorCall
    /\ WorkflowIdle
    /\ AnonymizerIdle
    /\ OverlapIdle
    /\ TrackingIdle
    /\ LegalIdle
    /\ ServerIdle

\* a caller awaits GestorAgent.process(state)
GestorCall ==
    /\ gestor_result = NoGestorCall
    /\ gestor_result' = GestorProcess(gestor_state)
    /\ gestor_result' # NoGestorCall
    /\ UNCHANGED <<gestor_state, wfvars, anvars, ovvars, trvars, lgvars, svvars>>

GestorNext == GestorCall

GestorSpec == GestorInit /\ [][GestorNext]_vars

\* the positions in the list of the offices that offer the type
Offering(procedure_type) ==
    {i \in DOMAIN available_offices :
        \E j \in DOMAIN available_offices[i].services :
            available_offices[i].services[j] = procedure_type}

-----------------------------------------------------------------------------
(* further properties of the tracking service                               *)

\* C25: a new record starts with a historial of one INICIADO entry; a record
\* of the registry stays in it and its historial only grows, by at most one
\* entry a call; actualizar_estado on an existing PIN appends exactly the
\* entry of the new estado; the estado of the last entry is the estado of
\* the record; cita is left alone when datos_cita is not given; and
\* consultar_estado_pin changes nothing in the registry.
C25_HistorialAppendOnly ==
    [][/\ \A pin \in DOMAIN tramites_db' \ DOMAIN tramites_db :
            /\ TrackingStep("crear_tramite")
            /\ Len(tramites_db'[pin].historial) = 1
            /\ tramites_db'[pin].historial[1].estado = INICIADO
       /\ \A pin \in DOMAIN tramites_db :
            /\ pin \in DOMAIN tramites_db'
            /\ IsPrefix(tramites_db[pin].historial, tramites_db'[pin].historial)
            /\ Len(tramites_db'[pin].historial)
                    <= Len(tramites_db[pin].historial) + 1
       /\ \A pin \in DOMAIN tramites_db' :
            tramites_db'[pin].historial[Len(tramites_db'[pin].historial)].estado
                = tramites_db'[pin].estado
       /\ \A pin_arg \in PinInputs,
             nuevo_estado \in EstadoInputs \cup {CITA_AGENDADA},
             update \in UpdateInputs \cup {CalendarUpdate} :
            ActualizarEstado(pin_arg, nuevo_estado, update.nota, update.datos_cita)
                => \A pin \in DOMAIN tramites_db :
                     /\ pin = strip(upper(pin_arg))
                          => /\ Len(tramites_db'[pin].historial)
                                    = Len(tramites_db[pin].historial) + 1
                             /\ tramites_db'[pin].estado = nuevo_estado
                     /\ pin # strip(upper(pin_arg))
                          => tramites_db'[pin] = tramites_db[pin]
                     /\ update.datos_cita = <<>>
                          => tramites_db'[pin].cita = tramites_db[pin].cita
       /\ TrackingStep("consultar_estado_pin") => tramites_db' = tramites_db]_vars

\* a trámite has been updated twice: the first update set the cita, the
\* second gave no datos_cita and left it in place
C25_Witness ==
    \E pin \in DOMAIN tramites_db :
        /\ Len(tramites_db[pin].historial) = 3
        /\ tramites_db[pin].historial[1].estado = INICIADO
        /\ tramites_db[pin].historial[2].nota = "Revisado"
        /\ tramites_db[pin].historial[3].nota
                = "Estado actualizado a: " \o tramites_db[pin].estado
        /\ tramites_db[pin].cita # <<>>

\* the place of an estado in the order of the seven stages, 0 for any other
OrderPosition(estado) ==
    IF \E i \in 1..7 : EstadoTramite[i] = estado
    THEN CHOOSE i \in 1..7 : EstadoTramite[i] = estado
    ELSE 0

\* C30 as stated: the estado of a trámite never moves to an earlier stage of
\* the order INICIADO .. ENTREGADO, a trámite in ENTREGADO or RECHAZADO is
\* never changed again, and the progress percentage reported for a trámite
\* never decreases.
C30_EstadoNeverGoesBack ==
    [][\A pin \in DOMAIN tramites_db :
          /\ (OrderPosition(tramites_db[pin].estado) > 0
                /\ OrderPosition(tramites_db'[pin].estado) > 0)
                => OrderPosition(tramites_db'[pin].estado)
                        >= OrderPosition(tramites_db[pin].estado)
          /\ tramites_db[pin].estado \in {ENTREGADO, RECHAZADO}
                => tramites_db'[pin] = tramites_db[pin]
          /\ porcentaje(tramites_db'[pin].estado)
                >= porcentaje(tramites_db[pin].estado)]_vars

-----------------------------------------------------------------------------
(* the run that start_procedure makes                                       *)

\* a ProcedureState as start_procedure creates it: no biometric data and no
\* documents, nothing run on it yet
FreshlyStarted(s) ==
    /\ s.current_step = START
    /\ s.step_history = <<>>
    /\ s.messages = <<>>
    /\ DOMAIN s.biometric_data = {}
    /\ DOMAIN s.documents = {}

-----------------------------------------------------------------------------
(* overlap resolution on the detections of a text                           *)

\* pieces of text whose detections overlap: a name inside an e-mail address,
\* a cédula that is also matched as a phone number, names next to numbers
DetectLexicon == {
    <<"a", "n", "a">>,
    <<"j", "u", "a", "n">>,
    <<"a", "n", "a", "@", "x", ".", "c", "o">>,
    <<" ">>,
    <<"1", "2", "3", "4", "5", "6", "7", "8">>,
    <<"0", "0", "1", "-", "1", "2", "3", "4", "5", "6", "7", "-", "8">> }

DetectTexts ==
    {Flatten(pieces) :
        pieces \in UNION {[1..n -> DetectLexicon] : n \in 0..MaxPieces}}

DetectInit ==
    /\ citizen_text \in DetectTexts
    /\ salt = 0
    /\ anonymization = NoAnonymization
    /\ safe_text = NoText
    /\ restored = NoText
    /\ WorkflowIdle
    /\ ExtIdle

\* detect_pii up to its return: the pattern and the name detections of the
\* text are collected and handed to _remove_overlaps
DetectPii ==
    /\ resolved = NotResolved
    /\ \E detected \in {pattern_detections(citizen_text)
                            \o name_detections(citizen_text)} :
            /\ candidates' = detected
            /\ resolved' = <<remove_overlaps(detected)>>
    /\ UNCHANGED <<wfvars, anvars, trvars, lgvars, gsvars, svvars>>

DetectNext == DetectPii

DetectSpec == DetectInit /\ [][DetectNext]_vars

\* C27: every detection of the text that _remove_overlaps does not return
\* overlaps a detection that it returns.
C27_NoDetectionLost ==
    resolved # NotResolved =>
        \A i \in DOMAIN candidates :
            \/ \E k \in DOMAIN resolved[1] : resolved[1][k] = candidates[i]
            \/ \E k \in DOMAIN resolved[1] :
                    Overlap(candidates[i], resolved[1][k])

\* a name was detected inside an e-mail address and dropped for the address
C27_Witness ==
    /\ resolved # NotResolved
    /\ \E i \in DOMAIN candidates, k \in DOMAIN resolved[1] :
            /\ candidates[i].pii_type = "name"
            /\ resolved[1][k].pii_type = "email"
            /\ Overlap(candidates[i], resolved[1][k])
            /\ \A j \in DOMAIN resolved[1] : resolved[1][j] # candidates[i]


-----------------------------------------------------------------------------
(* the scheduling step and the completed procedure                         *)

\* C28 as stated: while procedure_type is the one the state was created
\* with, a handler invocation on a state in SCHEDULING leaves it in COMPLETE.
C28_SchedulingCompletes ==
    [][(/\ typeEdited = FALSE
        /\ state.current_step = SCHEDULING
        /\ HandlerInvoked)
            => state'.current_step = COMPLETE]_vars


\* the data a COMPLETED legal review of this procedure type returns
CompletedLegalReview(data, procedure_type) ==
    /\ DOMAIN data = {"eligibility", "regulations", "summary"}
    /\ data.eligibility.eligible
    /\ data.eligibility.issues = <<>>
    /\ procedure_type \in DOMAIN regulations_db
    /\ data.regulations = regulations_db[procedure_type]

\* the data of a validation in which the three checks passed
PassedValidation(data) ==
    /\ DOMAIN data = {"document_check", "biometric_check", "form_check"}
    /\ data.document_check.passed
    /\ data.biometric_check.passed
    /\ data.form_check.passed

\* C29: a state that step and run calls have taken to COMPLETE, with the
\* procedure_type it was created with, has an appointment for that
\* procedure_type, the data of a COMPLETED legal review in legal_result and
\* a validation with its three checks passed in validation_result.
C29_CompleteIsBacked ==
    (typeEdited = FALSE /\ state.current_step = COMPLETE)
        => /\ "procedure" \in DOMAIN state.appointment
           /\ state.appointment.procedure = state.procedure_type
           /\ CompletedLegalReview(state.legal_result, state.procedure_type)
           /\ PassedValidation(state.validation_result)

\* a procedure completed by step requests alone
C29_Witness ==
    /\ typeEdited = FALSE
    /\ state.current_step = COMPLETE
    /\ call = [op |-> "step", status |-> "returned"]
    /\ state.appointment # EmptyDict
    /\ state.step_history = <<>>

====
